---- MODULE Spec2Model ----
(***************************************************************************)
(* State-machine model of the tender scraper pipeline                       *)
(* (Fetcher + retry_with_backoff, TenderDeduplicator, Persister,            *)
(* RunMetadata and Orchestrator.run).                                       *)
(*                                                                          *)
(* Time is counted in whole seconds.  rate_limit is a rational <<num, den>> *)
(* requests per second, so that 1.0 / rate_limit is den \div num.           *)
(***************************************************************************)
EXTENDS Integers, Sequences, FiniteSets, TLC

\* ------------------------------------------------------------------ bounds
MaxRetriesCfg == 3      \* largest RETRIES value explored
MaxLag        == 1      \* longest time one request may take, in seconds
MaxTime       == 11     \* the clock is not advanced past this value
MaxCalls      == 2      \* fetch calls issued by the Fetcher client
MaxLimit      == 2      \* largest --limit explored
MaxRaw        == 2      \* most records the parser returns
StartTime     == 3      \* time.time() when the model starts

\* ------------------------------------------------------- program constants
BaseDelay == 1          \* retry_with_backoff(base_delay=1.0)
JitterMax == 1          \* random.uniform(0, 1)
NumMockTitles == 15     \* len(tender_titles) in _generate_mock_tenders

VARIABLES
    now,          \* time.time()
    max_retries,  \* settings.MAX_RETRIES, bound into the decorator at import
    fetchers,     \* Fetcher instances: rate_limit, last_request_time, closed
    w,            \* the running retry_with_backoff wrapper call
    events,       \* calls of the wrapped function and sleeps of the wrapper
    hist,         \* per Fetcher: request count and start times of the last two
    ncalls,       \* fetch calls issued so far by the Fetcher client
    store,        \* the JSON file at output_path
    persisters,   \* Persister instances: the seen_ids of their deduplicator
    runsDb,       \* rows of the runs_metadata table
    pc,           \* position of Orchestrator.run
    limit,        \* Orchestrator.limit
    metadata,     \* Orchestrator.metadata (RunMetadata)
    html,         \* local of run: the fetched document
    raw_tenders,  \* local of run: the parser's records
    cleaned_tenders, \* local of run: the Cleaner's entities
    exc,          \* the exception in flight in run, NoExc when none
    stage_exc,    \* the exception that left the try block of run, if any
    outcome,      \* what the caller of run got: nothing yet, a return, an exception
    commits,      \* committed writes of this run's summary row
    dd_seen,      \* TenderDeduplicator.seen_ids of the deduplicator under test
    dd_last,      \* the last call made on that deduplicator
    dd_mem,       \* a sequence that an earlier deduplicate call was given
    ps_last,      \* the last save_tenders call made by the Persister client
    cl_last,      \* the last clean_tender call made by the Cleaner client
    md_last,      \* the last call made by the client of the runs_metadata table
    md_saved,     \* per run id, the row the last save_run_metadata call for it gave
    sv,           \* per Persister: its save_tenders call in progress, step by step
    sv_log,       \* the file operations of those calls, in the order they happened
    pa_last       \* the last call made by the Parser client

fetchVars   == <<now, max_retries, fetchers, w, events, hist, ncalls>>
persistVars == <<store, persisters>>
orchVars    == <<runsDb, pc, limit, metadata, html, raw_tenders,
                 cleaned_tenders, exc, stage_exc, outcome, commits>>
cleanVars   == <<cl_last>>
metaVars    == <<md_last, md_saved>>
raceVars    == <<sv, sv_log>>
parserVars  == <<pa_last>>
libVars     == <<dd_seen, dd_last, dd_mem, ps_last, cleanVars, metaVars, raceVars,
                 parserVars>>
vars        == <<fetchVars, persistVars, orchVars, libVars>>

\* ---------------------------------------------------------------- settings
RetryConfigs == (0 - 1)..MaxRetriesCfg
RateConfigs  == {<<0, 1>>, <<1, 2>>}     \* 0 (no limit) and 0.5 req/s
FetcherIds   == {"f1", "f2"}
FetchOps     == {"fetch_page", "fetch_api"}

\* ------------------------------------------------------------- exceptions
\* An exception object: its class, and where it was raised (its identity).
NoExc == [kind |-> "None", src |-> "None", attempt |-> 0]
MkExc(kind, src, attempt) == [kind |-> kind, src |-> src, attempt |-> attempt]

\* isinstance(e, Exception): KeyboardInterrupt derives from BaseException only.
IsException(e) == e.kind \notin {"None", "KeyboardInterrupt"}

\* What one request attempt can end in.
RequestFailures(op) ==
    IF op = "fetch_api" THEN {"ConnectionError", "JSONDecodeError"}
                        ELSE {"ConnectionError", "HTTPError"}
RequestOutcomes(op) == {"ok", "KeyboardInterrupt"} \cup RequestFailures(op)
\* How an attempt ended, as the wrapper sees it: returned, raised an
\* Exception (caught by `except Exception`), or raised past the handler.
OutcomeClass(out) == IF out \in {"ok", "KeyboardInterrupt"} THEN out ELSE "error"

\* ------------------------------------------------------------------ Fetcher
NewFetcher(rate) == [rate_limit |-> rate, last_request_time |-> 0, closed |-> FALSE]
NoHist == [n |-> 0, prev |-> 0, last |-> 0, slept |-> 0, after_close |-> FALSE]

\* 1.0 / self.rate_limit
Interval(rate) == rate[2] \div rate[1]

\* self.last_request_time as read by instance f
LastRequestTime(f) == fetchers[f].last_request_time

\* A bug RateLimitSleep could have: the subtraction the wrong way round.
RateLimitSleepFlipped(f, t) ==
    IF fetchers[f].rate_limit[1] > 0
    THEN LET elapsed    == t - LastRequestTime(f)
             sleep_time == elapsed - Interval(fetchers[f].rate_limit)
         IN  IF sleep_time > 0 THEN sleep_time ELSE 0
    ELSE 0

\* Fetcher._apply_rate_limit: the time to sleep before the request.
RateLimitSleep(f, t) ==
    IF fetchers[f].rate_limit[1] > 0
    THEN LET elapsed    == t - LastRequestTime(f)
             sleep_time == Interval(fetchers[f].rate_limit) - elapsed
         IN  IF sleep_time > 0 THEN sleep_time ELSE 0
    ELSE 0

\* ------------------------------------------------------- retry_with_backoff
IdleW == [pc |-> "idle", f |-> "none", op |-> "none", attempt |-> 0,
          last_exception |-> NoExc, result |-> "none", exc |-> NoExc]

\* A bug BackoffDelay could have: the exponent off by one.
BackoffDelayOffByOne(attempt, jitter) == BaseDelay * (2 ^ (attempt + 1)) + jitter

\* delay = base_delay * (2 ** attempt) + random.uniform(0, 1)
BackoffDelay(attempt, jitter) == BaseDelay * (2 ^ attempt) + jitter

\* attempt < max_retries - 1
HasRetryLeft(attempt) == attempt < max_retries - 1

\* A bug the wrapper could have: the failure wrapped in an exception of its own.
ExhaustedRaiseWrapped(wr, e) == MkExc("NetworkError", e.src, e.attempt)

\* `raise last_exception` once the last attempt has failed.
ExhaustedRaise(wr, e) == e

\* wrapper(*args): entering `for attempt in range(max_retries)`.
WrapperCall(f, op) ==
    /\ w.pc = "idle"
    /\ events' = <<>>
    /\ w' = IF max_retries <= 0
            THEN [IdleW EXCEPT !.pc = "returned", !.f = f, !.op = op, !.result = "None"]
            ELSE [IdleW EXCEPT !.pc = "running", !.f = f, !.op = op]

\* One iteration of the loop: func() = _apply_rate_limit, the request, and
\* the except clause that sleeps or raises.
Attempt ==
    /\ w.pc = "running"
    /\ \E dur \in 0..MaxLag, out \in RequestOutcomes(w.op), jitter \in 0..JitterMax :
         LET f     == w.f
             start == now + RateLimitSleep(f, now)
             end   == start + dur
             e     == MkExc(out, w.op, w.attempt)
             call  == [t |-> "call", a |-> w.attempt, d |-> 0, out |-> OutcomeClass(out)]
             delay == BackoffDelay(w.attempt, jitter)
         IN  /\ fetchers' = [fetchers EXCEPT ![f].last_request_time = start]
             /\ hist' = [hist EXCEPT ![f] = [n |-> @.n + 1, prev |-> @.last,
                                             last |-> start,
                                             slept |-> RateLimitSleep(f, now),
                                             after_close |-> @.after_close \/ fetchers[f].closed]]
             /\ CASE out = "ok" ->
                       /\ end <= MaxTime
                       /\ now' = end
                       /\ w' = [w EXCEPT !.pc = "returned", !.result = "body"]
                       /\ events' = Append(events, call)
                  [] out = "KeyboardInterrupt" ->
                       /\ end <= MaxTime
                       /\ now' = end
                       /\ w' = [w EXCEPT !.pc = "raised", !.exc = e]
                       /\ events' = Append(events, call)
                  [] OTHER ->
                       IF HasRetryLeft(w.attempt)
                       THEN /\ end + delay <= MaxTime
                            /\ now' = end + delay
                            /\ w' = [w EXCEPT !.last_exception = e, !.attempt = @ + 1]
                            /\ events' = events \o
                                 <<call, [t |-> "wait", a |-> w.attempt, d |-> delay, out |-> "none"]>>
                       ELSE /\ end <= MaxTime
                            /\ now' = end
                            /\ w' = [w EXCEPT !.pc = "raised", !.last_exception = e,
                                              !.exc = ExhaustedRaise(w, e)]
                            /\ events' = Append(events, call)
    /\ UNCHANGED <<max_retries, ncalls>>

\* ------------------------------------------------------------------- Tender
NoTime    == 0 - 1                      \* None where a timestamp is expected
TenderIds == {"t1", "t2"}               \* ids the listing page carries
MockIdTable == <<"m1", "m2", "m3", "m4", "m5", "m6">>
MockBases   == {0, 1}                   \* random.randint(10000, 50000)

NoTender == [tender_id |-> "None", ingested_at |-> NoTime]

\* A bug Tender.__post_init__ could have: ingested_at is stamped always.
MkTenderRestamped(id, ingested_at, t) == [tender_id |-> id, ingested_at |-> t]

\* Tender.__post_init__: ingested_at is stamped only when it is None.
MkTender(id, ingested_at, t) ==
    [tender_id |-> id, ingested_at |-> IF ingested_at = NoTime THEN t ELSE ingested_at]

Min(a, b) == IF a < b THEN a ELSE b
Max(a, b) == IF a > b THEN a ELSE b

\* seq[:lim]
Slice(seq, lim) ==
    IF lim >= 0 THEN SubSeq(seq, 1, Min(lim, Len(seq)))
                ELSE SubSeq(seq, 1, Max(0, Len(seq) + lim))

Ids(seq) == {seq[i].tender_id : i \in 1..Len(seq)}

\* All sequences over S of length at most n.
RECURSIVE SeqsUpTo(_, _)
SeqsUpTo(S, n) ==
    IF n = 0 THEN {<<>>}
    ELSE LET shorter == SeqsUpTo(S, n - 1)
         IN  shorter \cup {Append(q, x) : q \in shorter, x \in S}

\* --------------------------------------------------------------- Cleaner
\* Cleaner._clean_tender_id raises for "" and "UNKNOWN"; clean_tender
\* catches every exception and returns None.
CleanTender(raw, t) ==
    IF raw.tender_id \in {"", "UNKNOWN"} THEN NoTender
    ELSE MkTender(raw.tender_id, NoTime, t)

\* A bug the loop of run could have: the first rejected record ends it.
RECURSIVE CleanLoopStopsAtReject(_, _)
CleanLoopStopsAtReject(raws, t) ==
    IF raws = <<>> \/ CleanTender(Head(raws), t) = NoTender THEN <<>>
    ELSE <<CleanTender(Head(raws), t)>> \o CleanLoopStopsAtReject(Tail(raws), t)

\* The loop of Orchestrator.run over raw_tenders: `if tender:` keeps the
\* entities, in order.
RECURSIVE CleanLoop(_, _)
CleanLoop(raws, t) ==
    IF raws = <<>> THEN <<>>
    ELSE LET tender == CleanTender(Head(raws), t)
         IN  (IF tender = NoTender THEN <<>> ELSE <<tender>>) \o CleanLoop(Tail(raws), t)

\* clean_tender raising an Exception into the loop of run: never, its own
\* `except Exception` returns None instead.
CleanTenderRaises(raw) == FALSE

\* The loop of Orchestrator.run over raw_tenders: the number of times its
\* except clause runs (self.metadata.failures += 1).
RECURSIVE CleanLoopFailures(_)
CleanLoopFailures(raws) ==
    IF raws = <<>> THEN 0
    ELSE (IF CleanTenderRaises(Head(raws)) THEN 1 ELSE 0) + CleanLoopFailures(Tail(raws))

\* ------------------------------------------------------ TenderDeduplicator
\* A bug is_duplicate could have: the seen-set is not consulted.
IsDuplicateNever(seen, tender) == FALSE

\* is_duplicate
IsDuplicate(seen, tender) == tender.tender_id \in seen

\* A bug mark_seen could have: the id is not registered.
MarkSeenForgets(seen, tender) == seen

\* mark_seen
MarkSeen(seen, tender) == seen \cup {tender.tender_id}

\* deduplicate: the loop, carrying `unique` and self.seen_ids.
RECURSIVE DedupLoop(_, _, _)
DedupLoop(seen, rest, unique) ==
    IF rest = <<>> THEN [unique |-> unique, seen |-> seen]
    ELSE LET tender == Head(rest)
         IN  IF ~IsDuplicate(seen, tender)
             THEN DedupLoop(MarkSeen(seen, tender), Tail(rest), Append(unique, tender))
             ELSE DedupLoop(seen, Tail(rest), unique)

\* A bug deduplicate could have: every element is accepted.
DeduplicateKeepsAll(seen, tenders) ==
    [unique |-> tenders, seen |-> seen \cup Ids(tenders)]

\* deduplicate
Deduplicate(seen, tenders) == DedupLoop(seen, tenders, <<>>)

\* ---------------------------------------------------------------- Persister
PersisterIds == {"p1", "p2"}
OFetcher   == "f1"      \* Orchestrator.fetcher
OPersister == "p1"      \* Orchestrator.persister
NewPersister == [seen_ids |-> {}, calls |-> 0]

\* The file at output_path: whether it exists, the entities written to it,
\* and how many of them json.load / Tender(**item) yield before raising
\* (all of them for a file written completely).
AbsentFile == [exists |-> FALSE, items |-> <<>>, loadable |-> 0]
WrittenFile(items) == [exists |-> TRUE, items |-> items, loadable |-> Len(items)]
TruncatedFile(items) == [exists |-> TRUE, items |-> items, loadable |-> 0]

\* A bug the loading loop could have: nothing is appended to existing_tenders.
LoadExistingNothing(file, t) == <<>>

\* save_tenders, the loading loop: the entities appended to existing_tenders.
LoadExisting(file, t) ==
    IF file.exists
    THEN [i \in 1..file.loadable |->
            MkTender(file.items[i].tender_id, file.items[i].ingested_at, t)]
    ELSE <<>>

\* A bug the loading loop could have: the loaded ids are not registered.
MarkAllSkipped(seen, tenders) == seen

\* save_tenders, the loading loop: mark_seen for every loaded entity.
RECURSIVE MarkAll(_, _)
MarkAll(seen, tenders) ==
    IF tenders = <<>> THEN seen ELSE MarkAll(MarkSeen(seen, Head(tenders)), Tail(tenders))

\* A bug save_tenders could have: len(all_tenders) is returned.
SaveTendersReturnsTotal(seen, file, tenders, t) ==
    IF tenders = <<>>
    THEN [ret |-> 0, file |-> file, seen |-> seen, wrote |-> FALSE]
    ELSE LET existing_tenders == LoadExisting(file, t)
             d                == Deduplicate(MarkAll(seen, existing_tenders), tenders)
             all_tenders      == existing_tenders \o d.unique
         IN  [ret |-> Len(all_tenders), file |-> WrittenFile(all_tenders),
              seen |-> d.seen, wrote |-> TRUE]

\* save_tenders run to its end: the value returned, the file written and
\* the deduplicator's seen_ids.
SaveTenders(seen, file, tenders, t) ==
    IF tenders = <<>>
    THEN [ret |-> 0, file |-> file, seen |-> seen, wrote |-> FALSE]
    ELSE LET existing_tenders == LoadExisting(file, t)
             d                == Deduplicate(MarkAll(seen, existing_tenders), tenders)
             all_tenders      == existing_tenders \o d.unique
         IN  [ret |-> Len(d.unique), file |-> WrittenFile(all_tenders),
              seen |-> d.seen, wrote |-> TRUE]

\* A bug save_run_metadata could have: a plain insert next to the old row.
SaveRunMetadataKeepsOld(db, m) == db \cup {m}

\* INSERT OR REPLACE INTO runs_metadata: run_id is the primary key.
SaveRunMetadata(db, m) == {r \in db : r.run_id # m.run_id} \cup {m}

\* What earlier runs can have left at output_path: nothing, a complete
\* file, or a file whose writing was cut short.
PriorTime == StartTime - 1
InitialStores ==
    {AbsentFile,
     WrittenFile(<<MkTender("t1", PriorTime, PriorTime)>>),
     TruncatedFile(<<MkTender("t1", PriorTime, PriorTime)>>)}

PersistIdle ==
    /\ store = AbsentFile
    /\ persisters = [p \in PersisterIds |-> NewPersister]

\* -------------------------------------------------------------- RunMetadata
NoMetadata == [run_id |-> "None", start_time |-> NoTime, end_time |-> NoTime,
               duration_seconds |-> 0, pages_visited |-> 0, tenders_parsed |-> 0,
               tenders_saved |-> 0, failures |-> 0, deduped_count |-> 0,
               error_summary |-> {}]

\* RunMetadata.create_new
CreateNew(id, t) == [NoMetadata EXCEPT !.run_id = id, !.start_time = t]

\* RunMetadata.finish
Finish(m, t) == [m EXCEPT !.end_time = t, !.duration_seconds = t - m.start_time]

\* str(e): the message, which does not carry the class of the exception.
Str(e) == <<e.src, e.attempt>>

\* error_summary[key] = value
SetKey(d, key, value) == {kv \in d : kv[1] # key} \cup {<<key, value>>}

\* ------------------------------------------------- Cleaner, on field texts
\* A text is a sequence of one-character strings; a date text is a sequence
\* of the tokens " ", "d1" (a calendar date, day 1), "hm" (a time of day
\* hh:mm) and "x" (anything else).  Absent stands for a key the raw record
\* does not have.
Absent  == <<"<absent>">>
Unknown == <<"U", "N", "K", "N", "O", "W", "N">>
NoText  == <<>>

\* raw_data.get(key, default)
Get(value, default) == IF value = Absent THEN default ELSE value

IsSpace(c) == c = " "

\* str.strip()
RECURSIVE LStrip(_)
LStrip(text) ==
    IF text # <<>> /\ IsSpace(Head(text)) THEN LStrip(Tail(text)) ELSE text
RECURSIVE RStrip(_)
RStrip(text) ==
    IF text # <<>> /\ IsSpace(text[Len(text)])
    THEN RStrip(SubSeq(text, 1, Len(text) - 1)) ELSE text
Strip(text) == RStrip(LStrip(text))

\* str.upper(), on the letters the texts use
UpperOf(c) ==
    CASE c = "g" -> "G" [] c = "o" -> "O" [] c = "d" -> "D" [] c = "w" -> "W"
      [] c = "r" -> "R" [] c = "k" -> "K" [] c = "s" -> "S" [] c = "e" -> "E"
      [] c = "v" -> "V" [] c = "i" -> "I" [] c = "c" -> "C" [] c = "x" -> "X"
      [] OTHER -> c
Upper(text) == [i \in 1..Len(text) |-> UpperOf(text[i])]

\* needle in text
Contains(text, needle) ==
    \E i \in 1..(Len(text) - Len(needle) + 1) :
        SubSeq(text, i, i + Len(needle) - 1) = needle

\* The result of a rejected _clean_tender_id call (ValueError).
InvalidId == <<"<ValueError>">>

\* A bug _clean_tender_id could have: the text is tested before it is trimmed.
CleanTenderIdUntrimmed(tender_id) ==
    IF tender_id = <<>> \/ tender_id = Unknown THEN InvalidId ELSE Strip(tender_id)

\* Cleaner._clean_tender_id
CleanTenderId(tender_id) ==
    LET cleaned == Strip(tender_id)
    IN  IF cleaned = <<>> \/ cleaned = Unknown THEN InvalidId ELSE cleaned

\* A bug _normalize_tender_type could have: WORK tested before GOOD.
NormalizeTenderTypeWorkFirst(tender_type) ==
    LET t == Strip(Upper(tender_type))
    IN  IF Contains(t, <<"W", "O", "R", "K">>) THEN "Works"
        ELSE IF Contains(t, <<"G", "O", "O", "D">>) THEN "Goods"
        ELSE IF Contains(t, <<"S", "E", "R", "V">>) THEN "Services"
        ELSE "Works"

\* Cleaner._normalize_tender_type
NormalizeTenderType(tender_type) ==
    LET t == Strip(Upper(tender_type))
    IN  IF Contains(t, <<"G", "O", "O", "D">>) THEN "Goods"
        ELSE IF Contains(t, <<"W", "O", "R", "K">>) THEN "Works"
        ELSE IF \/ Contains(t, <<"S", "E", "R", "V", "I", "C", "E">>)
                \/ Contains(t, <<"S", "E", "R", "V">>) THEN "Services"
        ELSE "Works"

\* re.sub(r'\s+\d{1,2}:\d{2}.*$', '', date_str): everything from the first
\* run of spaces that a time follows.
TimeStart(text) ==
    {i \in 1..Len(text) :
        /\ IsSpace(text[i])
        /\ \E j \in (i + 1)..Len(text) :
              /\ text[j] = "hm"
              /\ \A k \in i..(j - 1) : IsSpace(text[k])}
RemoveTime(text) ==
    IF TimeStart(text) = {} THEN text
    ELSE SubSeq(text, 1, (CHOOSE i \in TimeStart(text) :
                              \A j \in TimeStart(text) : i <= j) - 1)

\* date_parser.parse(date_str, dayfirst=True) raised.
ParseError == 0 - 2

\* What date_parser.parse can do with a text: a lone date is parsed, an
\* empty text or one with foreign matter raises, and for the others (a lone
\* time, two dates) the library decides: it raises, or returns a date, which
\* may be the current one.
ParseOutcomes(text, today) ==
    IF text = <<"d1">> THEN {1}
    ELSE IF text = <<>> \/ \E i \in 1..Len(text) : text[i] = "x" THEN {ParseError}
    ELSE {ParseError, 1, today}

\* A bug _normalize_date could have: allow_null is not honoured.
NormalizeDateNeverNull(date_str, allow_null, today, parsed) ==
    IF date_str = <<>> \/ Strip(date_str) = <<>> \/ parsed = ParseError
    THEN today ELSE parsed

\* Cleaner._normalize_date; parsed is what date_parser.parse does with the
\* trimmed text, its time component removed.
NormalizeDate(date_str, allow_null, today, parsed) ==
    IF date_str = <<>> \/ Strip(date_str) = <<>>
    THEN (IF allow_null THEN NoTime ELSE today)
    ELSE IF parsed = ParseError
         THEN (IF allow_null THEN NoTime ELSE today)
         ELSE parsed

\* The text _normalize_date hands to date_parser.parse.
DateParseInput(date_str) == RemoveTime(Strip(date_str))

\* clean_tender returned None.
NoEntity == [tender_id |-> <<>>, tender_type |-> "None", publish_date |-> NoTime,
             closing_date |-> NoTime, ingested_at |-> NoTime]

\* Cleaner.clean_tender on the texts of a raw record: the Tender, or None
\* when _clean_tender_id raises.
CleanTenderTexts(raw_data, today, t, parsedPublish, parsedClosing) ==
    LET id == CleanTenderId(Get(raw_data.tender_id, NoText))
    IN  IF id = InvalidId THEN NoEntity
        ELSE [tender_id    |-> id,
              tender_type  |-> NormalizeTenderType(Get(raw_data.tender_type_raw, NoText)),
              publish_date |-> NormalizeDate(Get(raw_data.publish_date_raw, NoText),
                                             FALSE, today, parsedPublish),
              closing_date |-> NormalizeDate(Get(raw_data.closing_date_raw, NoText),
                                             TRUE, today, parsedClosing),
              ingested_at  |-> t]

\* ------------------------------------------- records of the client calls
\* No call made yet on the deduplicator under test.
NoCall == [op |-> "none", arg |-> <<>>, ret |-> <<>>, count |-> 0, flag |-> FALSE,
           seen_before |-> {}, again |-> FALSE]

DedupIdle ==
    /\ dd_seen = {}
    /\ dd_last = NoCall
    /\ dd_mem = <<>>

\* No save_tenders call made yet by the Persister client.
NoSave == [p |-> "none", tenders |-> <<>>, ret |-> 0, completed |-> FALSE,
           first |-> FALSE, repeats |-> FALSE, same_instance |-> FALSE,
           prev_first |-> FALSE]

PClientIdle == ps_last = NoSave

ThisRun == "run-1"      \* the run_id (a uuid4) of the Orchestrator

\* No clean_tender call made yet by the Cleaner client.
NoClean == [called |-> FALSE,
            raw |-> [tender_id |-> Absent, tender_type_raw |-> Absent,
                     publish_date_raw |-> Absent, closing_date_raw |-> Absent],
            parsed_publish |-> ParseError, parsed_closing |-> ParseError,
            out |-> NoEntity]

CleanIdle == cl_last = NoClean

\* Run ids of the rows the client of the runs_metadata table saves.
RunIds == {ThisRun, "run-2", "run-3"}

\* No call made yet on the runs_metadata table.
NoMetaCall == [op |-> "none", run_id |-> "None", replaced |-> FALSE]

MetaIdle ==
    /\ md_last = NoMetaCall
    /\ md_saved = [id \in RunIds |-> NoMetadata]

\* No save_tenders call in progress on a Persister.
NoSaveCall == [pc |-> "idle", tenders |-> <<>>, existing_tenders |-> <<>>,
               unique_tenders |-> <<>>, ret |-> 0]

RaceIdle ==
    /\ sv = [p \in PersisterIds |-> NoSaveCall]
    /\ sv_log = <<>>

\* No call made yet by the Parser client.
NoParse == [op |-> "none", arg |-> <<>>, ret |-> <<>>]

ParserIdle == pa_last = NoParse

LibIdle == DedupIdle /\ PClientIdle /\ CleanIdle /\ MetaIdle /\ RaceIdle /\ ParserIdle

\* ------------------------------------------------------------- Orchestrator
LimitConfigs == 0..MaxLimit
Faults       == {"RuntimeError", "KeyboardInterrupt"}
NoOutcome    == [kind |-> "none", exc |-> NoExc]

\* What the HTML parser can return for a fetched page: records whose id is
\* the digit group of a /tender/<id> link.
ParsedBatches == SeqsUpTo({[tender_id |-> id] : id \in TenderIds}, MaxRaw)

\* _generate_mock_tenders(count)
MockTenders(count, base) ==
    [i \in 1..Max(0, Min(count, NumMockTitles)) |-> [tender_id |-> MockIdTable[base + i]]]

OrchIdle ==
    /\ runsDb = {}
    /\ pc = "none"
    /\ limit = 0
    /\ metadata = NoMetadata
    /\ html = "none"
    /\ raw_tenders = <<>>
    /\ cleaned_tenders = <<>>
    /\ exc = NoExc
    /\ stage_exc = NoExc
    /\ outcome = NoOutcome
    /\ commits = 0

\* deduped_count = len(cleaned_tenders) - saved_count
DedupedCount(cleaned, saved_count) == Len(cleaned) - saved_count

\* An exception leaves the try block: `except Exception` takes it, anything
\* else goes straight to `finally`.
Propagate(e) ==
    /\ exc' = e
    /\ stage_exc' = e
    /\ pc' = IF IsException(e) THEN "handler" ELSE "finally"

\* A bug the except block could have: the row is written before finish()
\* and the error key are set.
HandlerRowUnfinished(m, e, t) == m

\* The except block: finish(), then error_summary["fatal_error"] = str(e).
HandlerRow(m, e, t) ==
    [Finish(m, t) EXCEPT !.error_summary = SetKey(@, "fatal_error", Str(e))]

\* A bug `finally` could be missing for: close() only at the end of the try.
ClosesOnlyOnSuccess(e) == e = NoExc

\* finally: self.fetcher.close() runs whatever is in flight.
ClosesSession(e) == TRUE

OInit ==
    /\ now = StartTime
    /\ max_retries \in RetryConfigs
    /\ \E r \in RateConfigs :
         fetchers = [f \in FetcherIds |-> NewFetcher(IF f = OFetcher THEN r ELSE <<0, 1>>)]
    /\ w = IdleW
    /\ events = <<>>
    /\ hist = [f \in FetcherIds |-> NoHist]
    /\ ncalls = 0
    /\ store \in InitialStores
    /\ persisters = [p \in PersisterIds |-> NewPersister]
    /\ runsDb = {}
    /\ pc = "fetch"
    /\ limit \in LimitConfigs
    /\ metadata = CreateNew(ThisRun, now)
    /\ html = "none"
    /\ raw_tenders = <<>>
    /\ cleaned_tenders = <<>>
    /\ exc = NoExc
    /\ stage_exc = NoExc
    /\ outcome = NoOutcome
    /\ commits = 0
    /\ LibIdle

\* html = self.fetcher.fetch_page(BASE_URL): the call enters the wrapper.
OFetchStart ==
    /\ pc = "fetch"
    /\ WrapperCall(OFetcher, "fetch_page")
    /\ pc' = "fetching"
    /\ UNCHANGED <<now, max_retries, fetchers, hist, ncalls, persistVars, runsDb,
                   limit, metadata, html, raw_tenders, cleaned_tenders, exc, stage_exc,
                   outcome, commits>>
    /\ UNCHANGED libVars

OFetchAttempt ==
    /\ pc = "fetching"
    /\ Attempt
    /\ UNCHANGED <<persistVars, orchVars>>
    /\ UNCHANGED libVars

\* fetch_page returned: html is bound and pages_visited is incremented.
OFetchReturn ==
    /\ pc = "fetching"
    /\ w.pc = "returned"
    /\ html' = w.result
    /\ metadata' = [metadata EXCEPT !.pages_visited = @ + 1]
    /\ pc' = "parse"
    /\ w' = IdleW
    /\ events' = <<>>
    /\ UNCHANGED <<now, max_retries, fetchers, hist, ncalls, persistVars, runsDb,
                   limit, raw_tenders, cleaned_tenders, exc, stage_exc, outcome, commits>>
    /\ UNCHANGED libVars

\* fetch_page raised.
OFetchRaise ==
    /\ pc = "fetching"
    /\ w.pc = "raised"
    /\ Propagate(w.exc)
    /\ w' = IdleW
    /\ events' = <<>>
    /\ UNCHANGED <<now, max_retries, fetchers, hist, ncalls, persistVars, runsDb,
                   limit, metadata, html, raw_tenders, cleaned_tenders, outcome, commits>>
    /\ UNCHANGED libVars

\* Step 2: parse, the mock-data fallback, tenders_parsed and the limit.
\* BeautifulSoup(None, 'lxml') raises (fetch_page returned None).
ParseStep(batches) ==
    /\ pc = "parse"
    /\ \/ \E parsed \in batches, base \in MockBases :
            LET raw == IF Len(parsed) = 0 THEN MockTenders(limit, base) ELSE parsed
            IN  /\ html # "None"
                /\ (Len(parsed) # 0 => base = 0)
                /\ metadata' = [metadata EXCEPT !.tenders_parsed = Len(raw)]
                /\ raw_tenders' = Slice(raw, limit)
                /\ pc' = "clean"
                /\ UNCHANGED <<exc, stage_exc>>
       \/ \E k \in Faults :
            /\ Propagate(MkExc(k, "parse", 0))
            /\ UNCHANGED <<metadata, raw_tenders>>
    /\ UNCHANGED <<fetchVars, persistVars, runsDb, limit, html, cleaned_tenders,
                   outcome, commits>>
    /\ UNCHANGED libVars

OParse == ParseStep(ParsedBatches)

\* Step 3: the cleaning loop.  clean_tender never raises, so the loop's own
\* except clause (failures += 1) is not entered.
OClean ==
    /\ pc = "clean"
    /\ \/ /\ cleaned_tenders' = CleanLoop(raw_tenders, now)
          /\ metadata' = [metadata EXCEPT !.failures = @ + CleanLoopFailures(raw_tenders)]
          /\ pc' = "save_tenders"
          /\ UNCHANGED <<exc, stage_exc>>
       \/ \E k \in Faults :
            /\ Propagate(MkExc(k, "clean", 0))
            /\ UNCHANGED <<cleaned_tenders, metadata>>
    /\ UNCHANGED <<fetchVars, persistVars, runsDb, limit, html,
                   raw_tenders, outcome, commits>>
    /\ UNCHANGED libVars

\* Step 4: save_tenders, tenders_saved and deduped_count.  A failure comes
\* before the file is opened for writing, or while it is being written.
OSaveTenders ==
    /\ pc = "save_tenders"
    /\ LET r == SaveTenders(persisters[OPersister].seen_ids, store, cleaned_tenders, now)
           p == [seen_ids |-> r.seen, calls |-> persisters[OPersister].calls + 1]
       IN  \/ /\ store' = r.file
              /\ persisters' = [persisters EXCEPT ![OPersister] = p]
              /\ metadata' = [metadata EXCEPT
                                !.tenders_saved = r.ret,
                                !.deduped_count = DedupedCount(cleaned_tenders, r.ret)]
              /\ pc' = "save_meta"
              /\ UNCHANGED <<exc, stage_exc>>
           \/ \E k \in Faults :
                /\ Propagate(MkExc(k, "save_tenders", 0))
                /\ \/ UNCHANGED store
                   \/ /\ r.wrote
                      /\ store' = TruncatedFile(r.file.items)
                /\ persisters' = [persisters EXCEPT ![OPersister] = p]
                /\ UNCHANGED metadata
    /\ UNCHANGED <<fetchVars, runsDb, limit, html, raw_tenders, cleaned_tenders,
                   outcome, commits>>
    /\ UNCHANGED libVars

\* metadata.finish(); persister.save_run_metadata(metadata).  A failure of
\* the save comes before the commit or after it.
OSaveMeta ==
    /\ pc = "save_meta"
    /\ metadata' = Finish(metadata, now)
    /\ \/ /\ runsDb' = SaveRunMetadata(runsDb, metadata')
          /\ commits' = commits + 1
          /\ pc' = "log_done"
          /\ UNCHANGED <<exc, stage_exc>>
       \/ \E k \in Faults :
            /\ Propagate(MkExc(k, "save_run_metadata", 0))
            /\ \/ UNCHANGED <<runsDb, commits>>
               \/ /\ runsDb' = SaveRunMetadata(runsDb, metadata')
                  /\ commits' = commits + 1
    /\ UNCHANGED <<fetchVars, persistVars, limit, html, raw_tenders,
                   cleaned_tenders, outcome>>
    /\ UNCHANGED libVars

\* The closing log lines of the try block.
OLogDone ==
    /\ pc = "log_done"
    /\ \/ /\ pc' = "finally"
          /\ UNCHANGED <<exc, stage_exc>>
       \/ \E k \in Faults : Propagate(MkExc(k, "log", 0))
    /\ UNCHANGED <<fetchVars, persistVars, runsDb, limit, metadata, html,
                   raw_tenders, cleaned_tenders, outcome, commits>>
    /\ UNCHANGED libVars

\* except Exception as e: finish, record the message, save, re-raise.  When
\* the save raises, that exception replaces e.
OHandler ==
    /\ pc = "handler"
    /\ metadata' = HandlerRow(metadata, exc, now)
    /\ pc' = "finally"
    /\ \/ /\ runsDb' = SaveRunMetadata(runsDb, metadata')
          /\ commits' = commits + 1
          /\ UNCHANGED exc
       \/ \E k \in Faults :
            /\ exc' = MkExc(k, "handler", 0)
            /\ \/ UNCHANGED <<runsDb, commits>>
               \/ /\ runsDb' = SaveRunMetadata(runsDb, metadata')
                  /\ commits' = commits + 1
    /\ UNCHANGED <<fetchVars, persistVars, limit, html, raw_tenders,
                   cleaned_tenders, stage_exc, outcome>>
    /\ UNCHANGED libVars

\* finally: self.fetcher.close(); then run returns or the exception goes on
\* to the caller.
OFinally ==
    /\ pc = "finally"
    /\ fetchers' = [fetchers EXCEPT ![OFetcher].closed = @ \/ ClosesSession(exc)]
    /\ outcome' = [kind |-> IF exc = NoExc THEN "returned" ELSE "raised", exc |-> exc]
    /\ pc' = "done"
    /\ UNCHANGED <<now, max_retries, w, events, hist, ncalls, persistVars, runsDb,
                   limit, metadata, html, raw_tenders, cleaned_tenders, exc, stage_exc,
                   commits>>
    /\ UNCHANGED libVars

Next ==
    \/ OFetchStart \/ OFetchAttempt \/ OFetchReturn \/ OFetchRaise
    \/ OParse \/ OClean \/ OSaveTenders \/ OSaveMeta \/ OLogDone
    \/ OHandler \/ OFinally

Spec == OInit /\ [][Next]_vars

\* ------------------------------------------------- the deduplicator client
\* A caller that owns one TenderDeduplicator and calls its methods with
\* entities that may share an id.
MaxBatch == 3
Tenders  == {MkTender("t1", 1, 1), MkTender("t1", 2, 2), MkTender("t2", 1, 1)}
Batches  == SeqsUpTo(Tenders, MaxBatch)

\* get_duplicate_count: len(tenders) - len(self.deduplicate(tenders.copy()))
GetDuplicateCount(seen, tenders) ==
    LET d == Deduplicate(seen, tenders)
    IN  [count |-> Len(tenders) - Len(d.unique), seen |-> d.seen]

DMarkSeen ==
    /\ \E t \in Tenders :
         /\ dd_seen' = MarkSeen(dd_seen, t)
         /\ dd_last' = [NoCall EXCEPT !.op = "mark_seen", !.arg = <<t>>,
                                      !.seen_before = dd_seen]
    /\ UNCHANGED dd_mem

DIsDuplicate ==
    /\ \E t \in Tenders :
         dd_last' = [NoCall EXCEPT !.op = "is_duplicate", !.arg = <<t>>,
                                   !.flag = IsDuplicate(dd_seen, t),
                                   !.seen_before = dd_seen]
    /\ UNCHANGED <<dd_seen, dd_mem>>

\* deduplicate(tenders); the client may keep the sequence to pass it again.
DDeduplicate ==
    \E tenders \in Batches :
        LET d == Deduplicate(dd_seen, tenders)
        IN  /\ dd_seen' = d.seen
            /\ dd_last' = [NoCall EXCEPT !.op = "deduplicate", !.arg = tenders,
                                         !.ret = d.unique, !.seen_before = dd_seen,
                                         !.again = (dd_mem = tenders)]
            /\ dd_mem' \in {dd_mem, tenders}

\* get_duplicate_count is given the shorter sequences.
CountBatches == SeqsUpTo(Tenders, MaxBatch - 1)

DGetDuplicateCount ==
    /\ \E tenders \in CountBatches :
         LET g == GetDuplicateCount(dd_seen, tenders)
         IN  /\ dd_seen' = g.seen
             /\ dd_last' = [NoCall EXCEPT !.op = "get_duplicate_count", !.arg = tenders,
                                          !.count = g.count, !.seen_before = dd_seen]
    /\ UNCHANGED dd_mem

\* --------------------------------------------------- the Persister client
\* Callers of save_tenders on one output path, one call at a time: a
\* Persister is built (a new run), and save_tenders is called on it and
\* returns, or raises before or while the file is written.
MaxSave     == 2
ClientPersisters == {OPersister}     \* the Persister of the run in progress
SaveBatches == SeqsUpTo(Tenders, MaxSave)

\* The record of a save_tenders call: what it was given and did, whether it
\* is the first call on its Persister, and how it relates to the call made
\* just before it (the same sequence after a call that returned, the same
\* Persister instance).
SaveRecord(p, tenders, ret, completed) ==
    [p |-> p, tenders |-> tenders, ret |-> ret, completed |-> completed,
     first |-> persisters[p].calls = 0,
     repeats |-> ps_last.completed /\ ps_last.tenders = tenders,
     same_instance |-> ps_last.p = p /\ persisters[p].calls > 0,
     prev_first |-> ps_last.first]

PNewPersister ==
    /\ \E p \in ClientPersisters :
         /\ persisters[p].calls > 0
         /\ persisters' = [persisters EXCEPT ![p] = NewPersister]
    /\ UNCHANGED <<store, ps_last>>

PSaveTenders ==
    \E p \in ClientPersisters, tenders \in SaveBatches :
        LET r == SaveTenders(persisters[p].seen_ids, store, tenders, now)
        IN  /\ store' = r.file
            /\ persisters' = [persisters EXCEPT ![p] = [seen_ids |-> r.seen, calls |-> 1]]
            /\ ps_last' = SaveRecord(p, tenders, r.ret, TRUE)

PSaveTendersRaises ==
    \E p \in ClientPersisters, tenders \in SaveBatches :
        LET r == SaveTenders(persisters[p].seen_ids, store, tenders, now)
        IN  /\ r.wrote
            /\ store' \in {store, TruncatedFile(r.file.items)}
            /\ persisters' = [persisters EXCEPT ![p] = [seen_ids |-> r.seen, calls |-> 1]]
            /\ ps_last' = SaveRecord(p, tenders, 0, FALSE)

DInit ==
    /\ now = StartTime
    /\ max_retries = MaxRetriesCfg
    /\ fetchers = [f \in FetcherIds |-> NewFetcher(<<0, 1>>)]
    /\ w = IdleW
    /\ events = <<>>
    /\ hist = [f \in FetcherIds |-> NoHist]
    /\ ncalls = 0
    /\ PersistIdle
    /\ OrchIdle
    /\ LibIdle

DNext ==
    \/ (DMarkSeen /\ UNCHANGED <<fetchVars, persistVars, orchVars, ps_last, cleanVars, metaVars, raceVars, parserVars>>)
    \/ (DIsDuplicate /\ UNCHANGED <<fetchVars, persistVars, orchVars, ps_last, cleanVars, metaVars, raceVars, parserVars>>)
    \/ (DDeduplicate /\ UNCHANGED <<fetchVars, persistVars, orchVars, ps_last, cleanVars, metaVars, raceVars, parserVars>>)
    \/ (DGetDuplicateCount /\ UNCHANGED <<fetchVars, persistVars, orchVars, ps_last, cleanVars, metaVars, raceVars, parserVars>>)

SpecDedup == DInit /\ [][DNext]_vars

PInit ==
    /\ now = StartTime
    /\ max_retries = MaxRetriesCfg
    /\ fetchers = [f \in FetcherIds |-> NewFetcher(<<0, 1>>)]
    /\ w = IdleW
    /\ events = <<>>
    /\ hist = [f \in FetcherIds |-> NoHist]
    /\ ncalls = 0
    /\ store \in InitialStores
    /\ persisters = [p \in PersisterIds |-> NewPersister]
    /\ OrchIdle
    /\ LibIdle

PNext ==
    \/ (PNewPersister /\ UNCHANGED <<fetchVars, orchVars, dd_seen, dd_last, dd_mem, cleanVars, metaVars, raceVars, parserVars>>)
    \/ (PSaveTenders /\ UNCHANGED <<fetchVars, orchVars, dd_seen, dd_last, dd_mem, cleanVars, metaVars, raceVars, parserVars>>)
    \/ (PSaveTendersRaises /\ UNCHANGED <<fetchVars, orchVars, dd_seen, dd_last, dd_mem, cleanVars, metaVars, raceVars, parserVars>>)

SpecPersist == PInit /\ [][PNext]_vars

\* ------------------------------------------------------- the Fetcher client
\* A caller that owns the Fetcher instances FetcherIds and calls fetch_page and
\* fetch_api on them, one call at a time.
FInit ==
    /\ now = StartTime
    /\ max_retries \in RetryConfigs
    /\ fetchers \in [FetcherIds -> {NewFetcher(r) : r \in RateConfigs}]
    /\ w = IdleW
    /\ events = <<>>
    /\ hist = [f \in FetcherIds |-> NoHist]
    /\ ncalls = 0
    /\ PersistIdle
    /\ OrchIdle
    /\ LibIdle

FStart ==
    /\ ncalls < MaxCalls
    /\ \E f \in FetcherIds, op \in FetchOps : WrapperCall(f, op)
    /\ ncalls' = ncalls + 1
    /\ UNCHANGED <<now, max_retries, fetchers, hist, persistVars, orchVars>>
    /\ UNCHANGED libVars

FAttempt == Attempt /\ UNCHANGED <<persistVars, orchVars, libVars>>

\* The caller takes the result or the exception; the wrapper frame is gone.
FFinish ==
    /\ w.pc \in {"returned", "raised"}
    /\ w' = IdleW
    /\ UNCHANGED <<now, max_retries, fetchers, events, hist, ncalls,
                   persistVars, orchVars>>
    /\ UNCHANGED libVars

FNext == FStart \/ FAttempt \/ FFinish

SpecFetch == FInit /\ [][FNext]_vars

\* ------------------------------------------- run from step 2, any Parser
\* Orchestrator.run from step 2 on, the page fetched, for raw records as
\* either method of the Parser builds them: parse_tender_from_json gives
\* the id "UNKNOWN" to an item that has none and "" to one whose id is "".
MaxPipe == 3
RawIds  == TenderIds \cup {"", "UNKNOWN"}
PipeBatches == SeqsUpTo({[tender_id |-> id] : id \in RawIds}, MaxPipe)

XInit ==
    /\ now = StartTime
    /\ max_retries = MaxRetriesCfg
    /\ fetchers = [f \in FetcherIds |-> NewFetcher(<<0, 1>>)]
    /\ w = IdleW
    /\ events = <<>>
    /\ hist = [f \in FetcherIds |-> NoHist]
    /\ ncalls = 0
    /\ store \in InitialStores
    /\ persisters = [p \in PersisterIds |-> NewPersister]
    /\ runsDb = {}
    /\ pc = "parse"
    /\ limit \in 0..MaxPipe
    /\ metadata = [CreateNew(ThisRun, now) EXCEPT !.pages_visited = 1]
    /\ html = "body"
    /\ raw_tenders = <<>>
    /\ cleaned_tenders = <<>>
    /\ exc = NoExc
    /\ stage_exc = NoExc
    /\ outcome = NoOutcome
    /\ commits = 0
    /\ LibIdle

XParse == ParseStep(PipeBatches)

XNext ==
    \/ XParse \/ OClean \/ OSaveTenders \/ OSaveMeta \/ OLogDone
    \/ OHandler \/ OFinally

SpecPipeline == XInit /\ [][XNext]_vars

\* ------------------------------------------------------ the Cleaner client
\* A caller that cleans one raw record and persists the entity it gets, as
\* run does with its batch, once.  The records vary one group of fields at
\* a time: the id, the type text, or the two date texts.
MaxPad     == 1
MaxWords   == 2
MaxDateLen == 2

RECURSIVE Spaces(_)
Spaces(n) == IF n = 0 THEN <<>> ELSE <<" ">> \o Spaces(n - 1)

RECURSIVE Flatten(_)
Flatten(words) == IF words = <<>> THEN <<>> ELSE Head(words) \o Flatten(Tail(words))

ValidIdText == <<"7">>
IdCores == {<<>>, Unknown, ValidIdText, Unknown \o <<"7">>, <<"7", " ", "7">>,
            <<"u", "n", "k", "n", "o", "w", "n">>}
IdTexts ==
    {Absent} \cup
    {Spaces(l) \o core \o Spaces(r) : l \in 0..MaxPad, r \in 0..MaxPad, core \in IdCores}

TypeWords == {<<"G", "O", "O", "D">>, <<"g", "o", "o", "d", "s">>, <<"G", "O">>,
              <<"O", "D">>, <<"W", "o", "r", "k">>, <<"S", "E", "R", "V">>,
              <<"s", "e", "r", "v", "i", "c", "e">>, <<"x", "y", "z">>, <<" ">>}
TypeTexts == {Absent} \cup {Flatten(words) : words \in SeqsUpTo(TypeWords, MaxWords)}

DateTokens == {" ", "d1", "hm", "x"}
DateTexts  == {Absent} \cup SeqsUpTo(DateTokens, MaxDateLen)

RawRecords ==
    {[tender_id |-> id, tender_type_raw |-> Absent,
      publish_date_raw |-> Absent, closing_date_raw |-> Absent] : id \in IdTexts}
    \cup
    {[tender_id |-> ValidIdText, tender_type_raw |-> type,
      publish_date_raw |-> Absent, closing_date_raw |-> Absent] : type \in TypeTexts}
    \cup
    {[tender_id |-> ValidIdText, tender_type_raw |-> Absent,
      publish_date_raw |-> pub, closing_date_raw |-> clo] :
        pub \in DateTexts, clo \in DateTexts}

\* tender = cleaner.clean_tender(raw); if tender: persister.save_tenders([tender])
CCleanTender ==
    /\ ~cl_last.called
    /\ \E raw \in RawRecords :
      \E pp \in ParseOutcomes(DateParseInput(Get(raw.publish_date_raw, NoText)), now),
         pcl \in ParseOutcomes(DateParseInput(Get(raw.closing_date_raw, NoText)), now) :
        LET tender == CleanTenderTexts(raw, now, now, pp, pcl)
            r == SaveTenders(persisters[OPersister].seen_ids, store,
                             IF tender = NoEntity THEN <<>>
                             ELSE <<MkTender(tender.tender_id, tender.ingested_at, now)>>,
                             now)
        IN  /\ cl_last' = [called |-> TRUE, raw |-> raw, parsed_publish |-> pp,
                           parsed_closing |-> pcl, out |-> tender]
            /\ store' = r.file
            /\ persisters' = [persisters EXCEPT ![OPersister] =
                                [seen_ids |-> r.seen, calls |-> 1]]

CInit ==
    /\ now = StartTime
    /\ max_retries = MaxRetriesCfg
    /\ fetchers = [f \in FetcherIds |-> NewFetcher(<<0, 1>>)]
    /\ w = IdleW
    /\ events = <<>>
    /\ hist = [f \in FetcherIds |-> NoHist]
    /\ ncalls = 0
    /\ PersistIdle
    /\ OrchIdle
    /\ LibIdle

CNext ==
    CCleanTender /\ UNCHANGED <<fetchVars, orchVars, dd_seen, dd_last, dd_mem,
                                ps_last, metaVars, raceVars, parserVars>>

SpecClean == CInit /\ [][CNext]_vars

\* ------------------------------------- the client of the runs_metadata table
\* Persisters on one metadata_db: each new one runs _init_metadata_db, and
\* save_run_metadata is called with summaries of several runs, a run's
\* summary possibly more than once and with other values.
MaxCount == 1

\* The summaries a caller can pass for a run id: started, with counts, and
\* finished or not.
Summaries(id) ==
    {[CreateNew(id, StartTime) EXCEPT !.tenders_saved = n] : n \in 0..MaxCount}
    \cup
    {Finish([CreateNew(id, StartTime) EXCEPT !.tenders_saved = n], StartTime + n) :
        n \in 0..MaxCount}

\* Persister.__init__: CREATE TABLE IF NOT EXISTS leaves the rows alone.
MInitMetadataDb ==
    /\ md_last' = [NoMetaCall EXCEPT !.op = "_init_metadata_db"]
    /\ UNCHANGED <<runsDb, md_saved>>

MSaveRunMetadata ==
    \E id \in RunIds : \E m \in Summaries(id) :
        /\ runsDb' = SaveRunMetadata(runsDb, m)
        /\ md_saved' = [md_saved EXCEPT ![id] = m]
        /\ md_last' = [op |-> "save_run_metadata", run_id |-> id,
                       replaced |-> md_saved[id] # NoMetadata]

\* save_run_metadata raises before conn.commit(): nothing is written.
MSaveRunMetadataRaises ==
    /\ \E id \in RunIds :
         md_last' = [op |-> "save_run_metadata raised", run_id |-> id, replaced |-> FALSE]
    /\ UNCHANGED <<runsDb, md_saved>>

MInit ==
    /\ now = StartTime
    /\ max_retries = MaxRetriesCfg
    /\ fetchers = [f \in FetcherIds |-> NewFetcher(<<0, 1>>)]
    /\ w = IdleW
    /\ events = <<>>
    /\ hist = [f \in FetcherIds |-> NoHist]
    /\ ncalls = 0
    /\ PersistIdle
    /\ OrchIdle
    /\ LibIdle

MNext ==
    \/ (MInitMetadataDb /\ UNCHANGED <<fetchVars, persistVars, pc, limit, metadata,
            html, raw_tenders, cleaned_tenders, exc, stage_exc, outcome, commits,
            dd_seen, dd_last, dd_mem, ps_last, cleanVars, raceVars, parserVars>>)
    \/ (MSaveRunMetadata /\ UNCHANGED <<fetchVars, persistVars, pc, limit, metadata,
            html, raw_tenders, cleaned_tenders, exc, stage_exc, outcome, commits,
            dd_seen, dd_last, dd_mem, ps_last, cleanVars, raceVars, parserVars>>)
    \/ (MSaveRunMetadataRaises /\ UNCHANGED <<fetchVars, persistVars, pc, limit, metadata,
            html, raw_tenders, cleaned_tenders, exc, stage_exc, outcome, commits,
            dd_seen, dd_last, dd_mem, ps_last, cleanVars, raceVars, parserVars>>)

SpecMeta == MInit /\ [][MNext]_vars

\* ------------------------------------- two runs on one output path at once
\* Two Persisters, each of its own run (its own process), are given the same
\* output_path and each makes one save_tenders call.  A call touches the
\* file three times: it reads it, it opens it with mode 'w', which empties
\* it, and it writes its list when the buffered file is closed.
SCall(p) ==
    /\ sv[p].pc = "idle"
    /\ \E tenders \in SaveBatches :
         IF tenders = <<>>
         THEN /\ sv' = [sv EXCEPT ![p] = [NoSaveCall EXCEPT !.pc = "done"]]
              /\ UNCHANGED <<persisters, sv_log>>
         ELSE LET existing_tenders == LoadExisting(store, now)
                  d == Deduplicate(MarkAll(persisters[p].seen_ids, existing_tenders),
                                   tenders)
              IN  /\ sv' = [sv EXCEPT ![p] =
                                [pc |-> "loaded", tenders |-> tenders,
                                 existing_tenders |-> existing_tenders,
                                 unique_tenders |-> d.unique, ret |-> 0]]
                  /\ persisters' = [persisters EXCEPT ![p] =
                                        [seen_ids |-> d.seen, calls |-> 1]]
                  /\ sv_log' = Append(sv_log, <<p, "load">>)
    /\ UNCHANGED store

\* open(self.output_path, 'w'): the file exists and is empty.
SOpen(p) ==
    /\ sv[p].pc = "loaded"
    /\ store' = TruncatedFile(<<>>)
    /\ sv' = [sv EXCEPT ![p].pc = "opened"]
    /\ sv_log' = Append(sv_log, <<p, "open">>)
    /\ UNCHANGED persisters

\* json.dump and the end of the with block, then the return.  The bytes go
\* to offset 0 of the file: over an empty file they are the file; over what
\* the other call wrote after this one's open they replace it when they are
\* at least as long, and leave its tail behind them otherwise.
SDump(p) ==
    /\ sv[p].pc = "opened"
    /\ LET all_tenders == sv[p].existing_tenders \o sv[p].unique_tenders
       IN  store' \in {WrittenFile(all_tenders)} \cup
                      (IF store.items = <<>> THEN {}
                       ELSE {TruncatedFile(all_tenders)})
    /\ sv' = [sv EXCEPT ![p].pc = "done", ![p].ret = Len(sv[p].unique_tenders)]
    /\ sv_log' = Append(sv_log, <<p, "dump">>)
    /\ UNCHANGED persisters

SInit ==
    /\ now = StartTime
    /\ max_retries = MaxRetriesCfg
    /\ fetchers = [f \in FetcherIds |-> NewFetcher(<<0, 1>>)]
    /\ w = IdleW
    /\ events = <<>>
    /\ hist = [f \in FetcherIds |-> NoHist]
    /\ ncalls = 0
    /\ store \in InitialStores
    /\ persisters = [p \in PersisterIds |-> NewPersister]
    /\ OrchIdle
    /\ LibIdle

SNext ==
    \E p \in PersisterIds :
        \/ (SCall(p) /\ UNCHANGED <<fetchVars, orchVars, dd_seen, dd_last, dd_mem,
                                    ps_last, cleanVars, metaVars, parserVars>>)
        \/ (SOpen(p) /\ UNCHANGED <<fetchVars, orchVars, dd_seen, dd_last, dd_mem,
                                    ps_last, cleanVars, metaVars, parserVars>>)
        \/ (SDump(p) /\ UNCHANGED <<fetchVars, orchVars, dd_seen, dd_last, dd_mem,
                                    ps_last, cleanVars, metaVars, parserVars>>)

SpecRace == SInit /\ [][SNext]_vars

\* ------------------------------------------------- Parser, structured data
\* A JSON value is tagged with its type; a text is a sequence of characters
\* or of longer pieces.  An item is a dict (its keys are the DOMAIN of map)
\* or something else.
JStr(text) == [t |-> "str", v |-> text]
JNum(text) == [t |-> "num", v |-> text]     \* text: the decimal digits
JNull      == [t |-> "null", v |-> <<>>]
JEmptyList == [t |-> "list", v |-> <<>>]

\* str(value): a str is itself, an int its digits, None is 'None'.
PyStr(value) == IF value.t = "null" THEN <<"N", "o", "n", "e">> ELSE value.v

\* item.get(key, default)
DictGet(map, key, default) == IF key \in DOMAIN map THEN map[key] ELSE default

DetailUrlPrefix == <<"https://tender.nprocure.com/tender/">>

\* The dict built for one item of data_list.
JsonTenderData(map) ==
    [tender_id        |-> PyStr(DictGet(map, "tenderId", DictGet(map, "id", JStr(Unknown)))),
     title            |-> DictGet(map, "title", DictGet(map, "tenderTitle", JStr(NoText))),
     organization     |-> DictGet(map, "organization",
                                  DictGet(map, "organizationName", JStr(NoText))),
     tender_type_raw  |-> DictGet(map, "tenderType",
                                  DictGet(map, "evaluationType", JStr(NoText))),
     publish_date_raw |-> DictGet(map, "publishDate",
                                  DictGet(map, "bidSubmissionStartDate", JStr(NoText))),
     closing_date_raw |-> DictGet(map, "closingDate",
                                  DictGet(map, "bidSubmissionEndDate", JStr(NoText))),
     description      |-> DictGet(map, "description",
                                  DictGet(map, "tenderDescription", JStr(NoText))),
     source_url       |-> DetailUrlPrefix \o
                          PyStr(DictGet(map, "tenderId", DictGet(map, "id", JStr(NoText)))),
     attachments_raw  |-> DictGet(map, "attachments", JEmptyList)]

\* The loop over data_list: item.get raises for an item that is not a dict,
\* the except clause logs it and the loop goes on.
RECURSIVE JsonLoop(_)
JsonLoop(items) ==
    IF items = <<>> THEN <<>>
    ELSE (IF Head(items).is_dict THEN <<JsonTenderData(Head(items).map)>> ELSE <<>>)
         \o JsonLoop(Tail(items))

\* parse_tender_from_json: data_list is json_data['data'] for a dict that
\* has the key, json_data itself otherwise; anything but a list gives [].
ParseTenderFromJson(json_data) ==
    LET data_list == IF json_data.shape = "dict with data" THEN json_data.data
                     ELSE json_data
    IN  IF data_list.shape = "list" THEN JsonLoop(data_list.items) ELSE <<>>

\* ----------------------------------- the client of parse_tender_from_json
\* A caller that passes one decoded response.  Each key of an item carries
\* its own name as its value (or a number, or null, under the id keys), so
\* that a field of the result shows the key it was read from; an item has
\* keys of one target field only.
MaxItems == 2

KeyGroups ==
    {{"id", "tenderId"}, {"title", "tenderTitle"},
     {"organization", "organizationName"},
     {"type", "tenderType", "evaluationType"},
     {"publishDate", "bidSubmissionStartDate"},
     {"closingDate", "bidSubmissionEndDate"},
     {"description", "tenderDescription"}}

JsonMaps ==
    {[k \in K |-> JStr(<<k>>)] : K \in UNION {SUBSET g : g \in KeyGroups}}
    \cup {[k \in {"id"} |-> JNum(<<"7">>)],
          [k \in {"tenderId"} |-> JNum(<<"8">>)],
          [k \in {"id", "tenderId"} |-> IF k = "id" THEN JNum(<<"7">>) ELSE JNull]}

JsonItems ==
    {[is_dict |-> TRUE, map |-> m] : m \in JsonMaps}
    \cup {[is_dict |-> FALSE, map |-> <<>>]}

JsonList(items) == [shape |-> "list", items |-> items, data |-> <<>>]

JsonResponses ==
    LET lists == {JsonList(items) : items \in SeqsUpTo(JsonItems, MaxItems)}
    IN  lists
        \cup {[shape |-> "dict with data", items |-> <<>>, data |-> l] : l \in lists}
        \cup {[shape |-> "dict with data", items |-> <<>>,
               data |-> [shape |-> "str", items |-> <<>>, data |-> <<>>]],
              [shape |-> "dict", items |-> <<>>, data |-> <<>>],
              [shape |-> "null", items |-> <<>>, data |-> <<>>]}

JParseTenderFromJson ==
    /\ pa_last.op = "none"
    /\ \E json_data \in JsonResponses :
         pa_last' = [op |-> "parse_tender_from_json", arg |-> json_data,
                     ret |-> ParseTenderFromJson(json_data)]

JInit ==
    /\ now = StartTime
    /\ max_retries = MaxRetriesCfg
    /\ fetchers = [f \in FetcherIds |-> NewFetcher(<<0, 1>>)]
    /\ w = IdleW
    /\ events = <<>>
    /\ hist = [f \in FetcherIds |-> NoHist]
    /\ ncalls = 0
    /\ PersistIdle
    /\ OrchIdle
    /\ LibIdle

JNext ==
    JParseTenderFromJson /\ UNCHANGED <<fetchVars, persistVars, orchVars, dd_seen,
                                        dd_last, dd_mem, ps_last, cleanVars, metaVars,
                                        raceVars>>

SpecJson == JInit /\ [][JNext]_vars

\* ------------------------------------------------------- Parser, markup
\* The document as BeautifulSoup shows it: its tables in document order,
\* each with a class and its tr rows, a row being the sequence of its td/th
\* cells, and the links that stand outside every table, after the tables.
\* A cell is the href of the link it holds, NoHref when it holds none; an
\* href is a sequence of pieces: "/tender/", single digits, other text.
NoHref == <<>>
DigitChars == <<"1", "2", "3", "4", "5", "6", "7", "8", "9">>
IsDigit(piece) == \E i \in 1..Len(DigitChars) : DigitChars[i] = piece

\* re.compile(r'/tender/') searched in href
MatchesTenderPath(href) == \E i \in 1..Len(href) : href[i] = "/tender/"

\* The places where r'/tender/(\d+)' matches in href.
TenderIdStarts(href) ==
    {i \in 1..Len(href) : href[i] = "/tender/" /\ i < Len(href) /\ IsDigit(href[i + 1])}

\* The digits of href from place i on, as far as they go.
RECURSIVE DigitRun(_, _)
DigitRun(href, i) ==
    IF i > Len(href) \/ ~IsDigit(href[i]) THEN <<>>
    ELSE <<href[i]>> \o DigitRun(href, i + 1)

\* re.search(r'/tender/(\d+)', href).group(1), NoHref when there is no match.
TenderIdMatch(href) ==
    IF TenderIdStarts(href) = {} THEN NoHref
    ELSE DigitRun(href, 1 + CHOOSE i \in TenderIdStarts(href) :
                                \A j \in TenderIdStarts(href) : i <= j)

\* cell.get_text(strip=True): the text of the cell at a place.
CellText(t, r, c) == <<"text", DigitChars[t], DigitChars[r], DigitChars[c]>>
Works == <<"Works">>

\* The element whose markup a record's raw_html holds.
Element(tag, t, r, c) == [tag |-> tag, t |-> t, r |-> r, c |-> c]

\* soup.find('table', class_='dataTable') or soup.find('table', class_='table')
\* or soup.find('table'): the index of the table, 0 when there is none.
FirstTable(doc, classes) ==
    LET found == {t \in 1..Len(doc.tables) : doc.tables[t].class \in classes}
    IN  IF found = {} THEN 0 ELSE CHOOSE t \in found : \A u \in found : t <= u

FindTable(doc) ==
    IF FirstTable(doc, {"dataTable"}) # 0 THEN FirstTable(doc, {"dataTable"})
    ELSE IF FirstTable(doc, {"table"}) # 0 THEN FirstTable(doc, {"table"})
    ELSE FirstTable(doc, {"dataTable", "table", "other"})

\* rows = all_rows[1:] if len(all_rows) > 1 else all_rows: the index in
\* all_rows of the first row looked at.
FirstDataRow(all_rows) == IF Len(all_rows) > 1 THEN 2 ELSE 1

\* _extract_tender_from_row: the record of row r of table t, NoRecord for
\* None.  The link is the one of the first of cols[:3] that holds a link
\* matching /tender/.
NoRecord == [tender_id |-> NoHref, tender_type_raw |-> NoText,
             publish_date_raw |-> NoText, raw_html |-> Element("none", 0, 0, 0)]

ExtractTenderFromRow(cols, t, r) ==
    LET with_link == {c \in 1..Min(3, Len(cols)) : MatchesTenderPath(cols[c])}
    IN  IF with_link = {} THEN NoRecord
        ELSE LET c == CHOOSE c \in with_link : \A d \in with_link : c <= d
                 tender_id == TenderIdMatch(cols[c])
             IN  IF tender_id = NoHref THEN NoRecord
                 ELSE [tender_id |-> tender_id,
                       tender_type_raw |-> IF Len(cols) > 2 THEN CellText(t, r, 3) ELSE Works,
                       publish_date_raw |-> IF Len(cols) > 3 THEN CellText(t, r, 4)
                                            ELSE NoText,
                       raw_html |-> Element("tr", t, r, 0)]

\* The loop over rows, from row r of table t on.
RECURSIVE RowLoop(_, _, _)
RowLoop(doc, t, r) ==
    LET all_rows == doc.tables[t].rows
    IN  IF r > Len(all_rows) THEN <<>>
        ELSE LET cols == all_rows[r]
                 tender_data == IF Len(cols) < 3 THEN NoRecord
                                ELSE ExtractTenderFromRow(cols, t, r)
             IN  (IF tender_data = NoRecord THEN <<>> ELSE <<tender_data>>)
                 \o RowLoop(doc, t, r + 1)

\* The links of the document with their places, in document order.
TableLinks(doc) ==
    LET places == UNION {UNION {{<<t, r, c>> : c \in {d \in 1..Len(doc.tables[t].rows[r]) :
                                                        doc.tables[t].rows[r][d] # NoHref}} :
                                  r \in 1..Len(doc.tables[t].rows)} :
                         t \in 1..Len(doc.tables)}
        Before(p, q) == \/ p[1] < q[1]
                        \/ p[1] = q[1] /\ p[2] < q[2]
                        \/ p[1] = q[1] /\ p[2] = q[2] /\ p[3] <= q[3]
        Nth(n) == CHOOSE p \in places : Cardinality({q \in places : Before(q, p)}) = n
    IN  [n \in 1..Cardinality(places) |->
            [href |-> doc.tables[Nth(n)[1]].rows[Nth(n)[2]][Nth(n)[3]],
             t |-> Nth(n)[1], r |-> Nth(n)[2], c |-> Nth(n)[3]]]

AllLinks(doc) ==
    TableLinks(doc) \o
    [i \in 1..Len(doc.links) |-> [href |-> doc.links[i], t |-> 0, r |-> 0, c |-> i]]

\* _parse_from_links: one record per link whose href matches /tender/\d+.
RECURSIVE LinkLoop(_, _)
LinkLoop(doc, links) ==
    IF links = <<>> THEN <<>>
    ELSE LET link == Head(links)
             in_row == link.t # 0
             cells == IF in_row THEN doc.tables[link.t].rows[link.r] ELSE <<>>
         IN  (IF TenderIdMatch(link.href) = NoHref THEN <<>>
              ELSE <<[tender_id |-> TenderIdMatch(link.href),
                      tender_type_raw |-> IF in_row /\ Len(cells) > 2
                                          THEN CellText(link.t, link.r, 3) ELSE Works,
                      publish_date_raw |-> NoText,
                      raw_html |-> IF in_row THEN Element("td", link.t, link.r, link.c)
                                   ELSE Element("body", 0, 0, 0)]>>)
             \o LinkLoop(doc, Tail(links))

ParseFromLinks(doc) == LinkLoop(doc, AllLinks(doc))

\* A bug the fallback could have: it is taken only when there is no table.
ParseTenderListFromHtmlNoFallback(doc) ==
    IF FindTable(doc) = 0 THEN ParseFromLinks(doc)
    ELSE RowLoop(doc, FindTable(doc), FirstDataRow(doc.tables[FindTable(doc)].rows))

\* parse_tender_list_from_html
ParseTenderListFromHtml(doc) ==
    LET table == FindTable(doc)
    IN  IF table = 0 THEN ParseFromLinks(doc)
        ELSE LET tenders == RowLoop(doc, table, FirstDataRow(doc.tables[table].rows))
             IN  IF tenders = <<>> THEN ParseFromLinks(doc) ELSE tenders

\* ------------------------------- the client of parse_tender_list_from_html
\* A caller that passes one document: no table, or a table of up to MaxRows
\* rows, possibly with a second table after it that has the class looked
\* for first or before it without a class looked for, and up to MaxLinks
\* links outside the tables.  A link's href is /tender/ followed
\* by the digits of its place, or by a word.
MaxRows  == 3
MaxLinks == 1

RowShapes ==
    {<<"num", "none">>, <<"none", "none", "none">>, <<"num", "none", "none">>,
     <<"none", "none", "num">>, <<"word", "num", "none">>,
     <<"none", "none", "none", "num">>, <<"num", "num", "none", "none">>}

HrefAt(kind, t, r, c) ==
    CASE kind = "num"  -> <<"/tender/", DigitChars[t], DigitChars[r], DigitChars[c]>>
      [] kind = "word" -> <<"/tender/", "x">>
      [] OTHER         -> NoHref

\* Table t of a document, with the given class and row shapes.
TableAt(class, shapes, t) ==
    [class |-> class,
     rows |-> [r \in 1..Len(shapes) |->
                 [c \in 1..Len(shapes[r]) |-> HrefAt(shapes[r][c], t, r, c)]]]

SecondTableShapes == <<<<"none", "none", "none">>, <<"num", "none", "none">>>>

Documents ==
    LET links == {[i \in 1..Len(kinds) |-> HrefAt(kinds[i], 9, 9, i)] :
                     kinds \in SeqsUpTo({"num", "word"}, MaxLinks)}
        mains == SeqsUpTo(RowShapes, MaxRows)
        tables ==
            {<<>>}
            \cup {<<TableAt(class, m, 1)>> :
                      m \in mains, class \in {"dataTable", "table", "other"}}
            \cup {<<TableAt("table", m, 1), TableAt("dataTable", SecondTableShapes, 2)>> :
                      m \in mains}
            \cup {<<TableAt("other", SecondTableShapes, 1), TableAt("table", m, 2)>> :
                      m \in mains}
    IN  {[tables |-> ts, links |-> ls] : ts \in tables, ls \in links}

HParseTenderListFromHtml ==
    /\ pa_last.op = "none"
    /\ \E doc \in Documents :
         pa_last' = [op |-> "parse_tender_list_from_html", arg |-> doc,
                     ret |-> ParseTenderListFromHtml(doc)]

HInit ==
    /\ now = StartTime
    /\ max_retries = MaxRetriesCfg
    /\ fetchers = [f \in FetcherIds |-> NewFetcher(<<0, 1>>)]
    /\ w = IdleW
    /\ events = <<>>
    /\ hist = [f \in FetcherIds |-> NoHist]
    /\ ncalls = 0
    /\ PersistIdle
    /\ OrchIdle
    /\ LibIdle

HNext ==
    HParseTenderListFromHtml /\ UNCHANGED <<fetchVars, persistVars, orchVars, dd_seen,
                                            dd_last, dd_mem, ps_last, cleanVars,
                                            metaVars, raceVars>>

SpecHtml == HInit /\ [][HNext]_vars

\* ------------------------------------------------- claims on retry and rate
CallsMade == Cardinality({i \in 1..Len(events) : events[i].t = "call"})
CallsBefore(i) == Cardinality({j \in 1..(i - 1) : events[j].t = "call"})
AllAttemptsFailed ==
    \A i \in 1..Len(events) :
        events[i].t = "call" => events[i].out = "error"

\* C4: for every max_retries the configuration accepts, a call whose attempts
\* all fail invokes the operation exactly max_retries times and then raises
\* the exception of the final attempt; the wrapper never returns unless an
\* attempt succeeded.
C4_ExhaustionRaises ==
    /\ (w.pc = "returned" =>
          /\ events # <<>>
          /\ events[Len(events)].t = "call"
          /\ events[Len(events)].out = "ok")
    /\ (w.pc = "raised" /\ AllAttemptsFailed =>
          /\ CallsMade = max_retries
          /\ w.exc = w.last_exception
          /\ w.exc.attempt = CallsMade - 1)

\* C5: the wrapper's trace starts with attempt 0, every wait directly follows
\* a failed attempt and is within [base_delay * 2^(k-1), base_delay * 2^(k-1) + 1]
\* for the attempt k it precedes, a finished call ends with an attempt (no
\* wait after the final failure), and a successful attempt is the last event
\* and its result is what the wrapper returns.
C5_BackoffSchedule ==
    /\ (events # <<>> => events[1].t = "call")
    /\ \A i \in 1..Len(events) :
          /\ (events[i].t = "wait" =>
                /\ i > 1
                /\ events[i - 1].t = "call"
                /\ events[i - 1].out = "error"
                /\ CallsBefore(i) >= 1
                /\ events[i].d >= BaseDelay * (2 ^ (CallsBefore(i) - 1))
                /\ events[i].d <= BaseDelay * (2 ^ (CallsBefore(i) - 1)) + 1)
          /\ (events[i].t = "call" /\ i > 1 => events[i - 1].t = "wait")
          /\ (events[i].t = "call" /\ events[i].out = "ok" =>
                /\ i = Len(events)
                /\ w.pc \in {"returned", "idle"})
    /\ (w.pc \in {"returned", "raised"} /\ events # <<>> =>
          events[Len(events)].t = "call")
    /\ (w.pc = "returned" /\ events # <<>> => w.result = "body")

\* A call that failed twice, waited twice and then succeeded, the second
\* wait with the largest jitter.
C5_Witness ==
    /\ w.pc = "returned"
    /\ Len(events) = 5
    /\ events[4].d = BaseDelay * 2 + 1
    /\ events[5].out = "ok"

\* C6: on a Fetcher with rate_limit > 0 two consecutive request attempts
\* start at least 1 / rate_limit apart, and the first request of an instance
\* is never delayed (no other instance's timestamp is consulted).
C6_RateLimit ==
    \A f \in FetcherIds :
        fetchers[f].rate_limit[1] > 0 =>
            /\ (hist[f].n >= 2 =>
                  hist[f].last - hist[f].prev >= fetchers[f].rate_limit[2] \div fetchers[f].rate_limit[1])
            /\ (hist[f].n = 1 => hist[f].slept = 0)

\* A retry attempt that had to sleep for the rate limit, and another
\* instance whose first request starts within the interval of the first
\* instance's last request.
C6_Witness ==
    \E f, g \in FetcherIds :
        /\ f # g
        /\ fetchers[f].rate_limit[1] > 0 /\ fetchers[g].rate_limit[1] > 0
        /\ hist[f].n >= 2 /\ hist[f].slept > 0
        /\ hist[g].n = 1
        /\ hist[g].last >= hist[f].last
        /\ hist[g].last - hist[f].last < Interval(fetchers[g].rate_limit)

\* ------------------------------------------------ claims on Orchestrator.run
StageSources == {"fetch_page", "parse", "clean", "save_tenders"}
SummaryRows  == {r \in runsDb : r.run_id = ThisRun}

\* C1: whatever stage fails, or none, the summary of the run has been written
\* exactly once when run returns or raises (here: when run returned, or
\* re-raised the exception of the try block after the except block's own
\* write went through).
C1_PersistedExactlyOnce ==
    (/\ pc = "done"
     /\ outcome.exc.kind # "KeyboardInterrupt"
     /\ outcome.exc.src # "handler") => commits = 1

C7_FetchFailureIsNetworkError ==
    (stage_exc.src = "fetch_page" /\ IsException(stage_exc)) =>
        stage_exc.kind = "NetworkError"

\* C7 amended: the failure of an exhausted fetch reaches run as the
\* exception of the final attempt, with that attempt's own class, and it
\* aborts the run: nothing was parsed and run raises.
C7_FetchFailureIsLastException ==
    /\ (pc = "fetching" /\ w.pc = "raised" /\ IsException(w.exc) =>
          /\ w.exc = w.last_exception
          /\ w.exc.attempt = max_retries - 1)
    /\ (stage_exc.src = "fetch_page" /\ IsException(stage_exc) =>
          /\ stage_exc.kind \in RequestFailures("fetch_page")
          /\ stage_exc.attempt = max_retries - 1
          /\ html = "none"
          /\ metadata.pages_visited = 0
          /\ metadata.tenders_parsed = 0
          /\ pc \in {"handler", "finally", "done"}
          /\ (pc = "done" => outcome.kind = "raised"))

\* Three attempts failed, the last with an HTTPError, and run raised it.
C7_Witness ==
    /\ pc = "done"
    /\ stage_exc = MkExc("HTTPError", "fetch_page", 2)
    /\ outcome.exc = stage_exc

\* ------------------------------------------- claims on TenderDeduplicator
\* The elements of arg, from position i on, whose id is neither in seen nor
\* carried by an element at a smaller position.
RECURSIVE FirstOccurrences(_, _, _)
FirstOccurrences(arg, seen, i) ==
    IF i > Len(arg) THEN <<>>
    ELSE (IF /\ arg[i].tender_id \notin seen
             /\ \A j \in 1..(i - 1) : arg[j].tender_id # arg[i].tender_id
          THEN <<arg[i]>> ELSE <<>>) \o FirstOccurrences(arg, seen, i + 1)

\* C8: deduplicate returns, in input order, exactly the elements whose id
\* was not registered before the call and is not carried by an earlier
\* element of the input, and afterwards the seen-set is the old one united
\* with all ids of the input.
C8_DeduplicateFirstWins ==
    dd_last.op = "deduplicate" =>
        /\ dd_last.ret = FirstOccurrences(dd_last.arg, dd_last.seen_before, 1)
        /\ dd_seen = dd_last.seen_before \cup Ids(dd_last.arg)

\* Of three elements one is kept, one dropped for an id registered before
\* the call and one dropped for the id of an earlier element.
C8_Witness ==
    /\ dd_last.op = "deduplicate"
    /\ dd_last.seen_before = {"t2"}
    /\ dd_last.arg = <<MkTender("t1", 2, 2), MkTender("t2", 1, 1), MkTender("t1", 1, 1)>>
    /\ dd_last.ret = <<MkTender("t1", 2, 2)>>

\* C9: a deduplicate call given a sequence that an earlier deduplicate call
\* on the same instance was given returns the empty sequence and leaves the
\* seen-set as it was.
C9_SecondDeduplicateEmpty ==
    (dd_last.op = "deduplicate" /\ dd_last.again) =>
        /\ dd_last.ret = <<>>
        /\ dd_seen = dd_last.seen_before

\* The repeated call was given a sequence of three elements.
C9_Witness ==
    /\ dd_last.op = "deduplicate"
    /\ dd_last.again
    /\ Len(dd_last.arg) = 3
    /\ dd_last.seen_before = {"t1", "t2"}

\* ------------------------------------------------------ claims on Persister
\* C10: a save_tenders call that returns, given the sequence the call just
\* before it was given and returned from, on the same Persister (same run)
\* or after a call that was the first of its Persister (successive runs),
\* reports 0 saved, leaves the ids and the number of entities in the file
\* as they were, and makes deduped_count the length of the input.
C10_SecondSaveChangesNothing ==
    [][(/\ ps_last'.completed
        /\ ps_last'.repeats
        /\ (ps_last'.same_instance \/ ps_last'.prev_first)) =>
          /\ ps_last'.ret = 0
          /\ Ids(store'.items) = Ids(store.items)
          /\ Len(store'.items) = Len(store.items)
          /\ store'.loadable = store.loadable
          /\ DedupedCount(ps_last'.tenders, ps_last'.ret) = Len(ps_last'.tenders)]_vars

\* The second of two runs, each with a Persister of its own, was given the
\* two entities the first run had saved.
C10_Witness ==
    /\ ps_last.completed /\ ps_last.repeats
    /\ ps_last.first /\ ps_last.prev_first
    /\ Len(ps_last.tenders) = 2
    /\ ps_last.ret = 0
    /\ Ids(ps_last.tenders) = {"t1", "t2"}
    /\ store = WrittenFile(ps_last.tenders)

\* seq is an initial part of other.
IsPrefix(seq, other) ==
    /\ Len(seq) <= Len(other)
    /\ SubSeq(other, 1, Len(seq)) = seq

\* C11: no save_tenders call removes or reorders an entity the file held
\* before it: what the file held is an initial part of what it holds
\* afterwards, also when the existing file cannot be fully loaded.
C11_AppendOnly ==
    [][ps_last'.completed => IsPrefix(store.items, store'.items)]_vars

\* No two positions of seq carry the same id.
NoDupIds(seq) ==
    \A i, j \in 1..Len(seq) : seq[i].tender_id = seq[j].tender_id => i = j

\* C12: whatever save_tenders calls were made, one at a time, by one
\* Persister or by the Persisters of successive runs, with whatever batches,
\* no two entities in the file have the same id.
C12_NoDuplicateIds == NoDupIds(store.items)

\* The Persister of a second run was given a batch that carries one id
\* twice, saved one entity of it, and the file holds two entities.
C12_Witness ==
    /\ ps_last.completed /\ ps_last.first /\ ps_last.prev_first
    /\ Len(ps_last.tenders) = 2
    /\ ps_last.tenders[1].tender_id = ps_last.tenders[2].tender_id
    /\ ps_last.ret = 1
    /\ store.loadable = 2

\* ------------------------------------------- claims on the cleaning loop
\* The run came through the given stage without leaving the try block there
\* or earlier.
CleanDone ==
    \/ pc \in {"save_tenders", "save_meta", "log_done"}
    \/ /\ pc \in {"handler", "finally", "done"}
       /\ stage_exc.src \in {"None", "save_tenders", "save_run_metadata", "log"}
SaveDone ==
    \/ pc \in {"save_meta", "log_done"}
    \/ /\ pc \in {"handler", "finally", "done"}
       /\ stage_exc.src \in {"None", "save_run_metadata", "log"}

\* The processed raw records that produced no Tender.
Rejected(raws) == {i \in 1..Len(raws) : raws[i].tender_id \in {"", "UNKNOWN"}}

IdSeq(seq) == [i \in 1..Len(seq) |-> seq[i].tender_id]

\* The processed raw records the Cleaner accepts, in order.
Accepted(raws) == SelectSeq(raws, LAMBDA r : r.tender_id \notin {"", "UNKNOWN"})

\* C14: the sequence handed to save_tenders is the subsequence of the
\* processed raw records that the Cleaner accepts, in parser order (records
\* after a rejected one included), and the entities the run added to the
\* file are the first occurrences among them of the ids the file did not
\* hold, in that same order, after everything the file held.
C14_OrderPreserved ==
    /\ (CleanDone => IdSeq(cleaned_tenders) = IdSeq(Accepted(raw_tenders)))
    /\ (SaveDone =>
          LET total == Len(store.items)
              kept  == SubSeq(store.items, 1, total - metadata.tenders_saved)
              added == SubSeq(store.items, total - metadata.tenders_saved + 1, total)
          IN  /\ metadata.tenders_saved <= total
              /\ added = FirstOccurrences(cleaned_tenders, Ids(kept), 1))

\* Three records were processed, the second was rejected, and the file holds
\* the first and the third in that order.
C14_Witness ==
    /\ pc = "done" /\ outcome.kind = "returned"
    /\ IdSeq(raw_tenders) = <<"t2", "UNKNOWN", "t1">>
    /\ IdSeq(store.items) = <<"t2", "t1">>

\* ---------------------------------------------------- claims on the Cleaner
\* The positions of text that do not hold a space.
Inked(text) == {i \in 1..Len(text) : ~IsSpace(text[i])}

\* text is absent, empty or made of spaces only.
BlankText(text) == text = Absent \/ Inked(text) = {}

\* text without the spaces around it is the sentinel.
SentinelText(text) ==
    /\ text # Absent
    /\ Inked(text) # {}
    /\ LET first == CHOOSE i \in Inked(text) : \A j \in Inked(text) : i <= j
           last  == CHOOSE i \in Inked(text) : \A j \in Inked(text) : i >= j
       IN  SubSeq(text, first, last) = Unknown

\* C15: clean_tender returns no entity for a raw record whose id is absent,
\* empty, blank or, trimmed, the sentinel; the id of an entity it returns is
\* non-empty, not the sentinel and carries no space at either end; and no
\* entity in the file has an id that is empty or the sentinel.
C15_NoInvalidId ==
    /\ (cl_last.called =>
          /\ (BlankText(cl_last.raw.tender_id) \/ SentinelText(cl_last.raw.tender_id)
                => cl_last.out = NoEntity)
          /\ (cl_last.out # NoEntity =>
                /\ cl_last.out.tender_id \notin {<<>>, Unknown}
                /\ ~IsSpace(Head(cl_last.out.tender_id))
                /\ ~IsSpace(cl_last.out.tender_id[Len(cl_last.out.tender_id)])))
    /\ \A i \in 1..Len(store.items) :
          /\ store.items[i].tender_id \notin {<<>>, Unknown}
          /\ Inked(store.items[i].tender_id) # {}

\* A record whose id is the sentinel between spaces was rejected and
\* nothing was written.
C15_Witness ==
    /\ cl_last.called
    /\ cl_last.raw.tender_id = <<" ">> \o Unknown \o <<" ">>
    /\ cl_last.out = NoEntity
    /\ store = AbsentFile

\* The date text of a field of the last record is absent, empty or blank, or
\* date_parser.parse raised on it.
NoDateIn(text, parsed) == BlankText(text) \/ parsed = ParseError

\* C16: for a produced Tender, a publish date text that is absent, empty,
\* blank or unparseable gives the current date, and the publish date is never
\* null; such a closing date text gives null, and a closing date that is not
\* null is what the parser made of the text, never the default.
C16_DateDefaults ==
    (cl_last.called /\ cl_last.out # NoEntity) =>
        /\ cl_last.out.publish_date # NoTime
        /\ (NoDateIn(cl_last.raw.publish_date_raw, cl_last.parsed_publish)
              => cl_last.out.publish_date = now)
        /\ (~NoDateIn(cl_last.raw.publish_date_raw, cl_last.parsed_publish)
              => cl_last.out.publish_date = cl_last.parsed_publish)
        /\ (NoDateIn(cl_last.raw.closing_date_raw, cl_last.parsed_closing)
              => cl_last.out.closing_date = NoTime)
        /\ (cl_last.out.closing_date # NoTime
              => /\ ~BlankText(cl_last.raw.closing_date_raw)
                 /\ cl_last.out.closing_date = cl_last.parsed_closing)

\* Both date texts of one record are unusable, one unparseable and one blank:
\* the publish date is today and the closing date is null.
C16_Witness ==
    /\ cl_last.called
    /\ cl_last.raw.publish_date_raw = <<"x">>
    /\ cl_last.raw.closing_date_raw = <<" ", " ">>
    /\ cl_last.out.publish_date = now
    /\ cl_last.out.closing_date = NoTime
    /\ cl_last.out.tender_id = ValidIdText

\* c is the capital letter K or its small form.
SameLetter(c, K) ==
    \/ c = K
    \/ <<c, K>> \in {<<"g", "G">>, <<"o", "O">>, <<"d", "D">>, <<"w", "W">>,
                     <<"r", "R">>, <<"k", "K">>, <<"s", "S">>, <<"e", "E">>,
                     <<"v", "V">>}

\* text carries the keyword, in whatever case.
HasKeyword(text, keyword) ==
    /\ text # Absent
    /\ \E i \in 1..(Len(text) - Len(keyword) + 1) :
          \A k \in 1..Len(keyword) : SameLetter(text[i + k - 1], keyword[k])

\* C17: the type of a produced Tender is Goods, Works or Services: Goods
\* when the raw text carries GOOD, else Works when it carries WORK, else
\* Services when it carries SERV, else Works, case not mattering.
C17_TypePriority ==
    (cl_last.called /\ cl_last.out # NoEntity) =>
        LET text == cl_last.raw.tender_type_raw
            good == HasKeyword(text, <<"G", "O", "O", "D">>)
            work == HasKeyword(text, <<"W", "O", "R", "K">>)
            serv == HasKeyword(text, <<"S", "E", "R", "V">>)
        IN  /\ cl_last.out.tender_type \in {"Goods", "Works", "Services"}
            /\ (good => cl_last.out.tender_type = "Goods")
            /\ (~good /\ work => cl_last.out.tender_type = "Works")
            /\ (~good /\ ~work /\ serv => cl_last.out.tender_type = "Services")
            /\ (~good /\ ~work /\ ~serv => cl_last.out.tender_type = "Works")

\* A text that carries WORK and then, in small letters, GOOD was classified
\* as Goods.
C17_Witness ==
    /\ cl_last.called
    /\ cl_last.raw.tender_type_raw = <<"W", "o", "r", "k", "g", "o", "o", "d", "s">>
    /\ cl_last.out.tender_type = "Goods"

\* ------------------------------------------ claims on the runs_metadata table
\* C18: the table holds exactly one row for each run id saved so far, that
\* row is the one the latest save_run_metadata call for the id gave, and the
\* rows of the other ids are the ones their own latest calls gave.
C18_UpsertByRunId ==
    /\ runsDb = {md_saved[id] : id \in {i \in RunIds : md_saved[i] # NoMetadata}}
    /\ \A r1, r2 \in runsDb : r1.run_id = r2.run_id => r1 = r2
    /\ \A id \in RunIds :
          Cardinality({r \in runsDb : r.run_id = id}) =
              IF md_saved[id] = NoMetadata THEN 0 ELSE 1

\* The row of a run id was replaced while the table held rows of two other
\* ids.
C18_Witness ==
    /\ md_last.op = "save_run_metadata"
    /\ md_last.replaced
    /\ Cardinality(runsDb) = 3
    /\ md_saved[md_last.run_id].end_time # NoTime

\* ------------------------------------------------ claims on the parse step
\* C19: a run for which the Parser extracted nothing (with a limit above 0:
\* a run that processed no record carrying an id of the page) returns with
\* tenders_parsed = 0 and tenders_saved = 0 and leaves the file as it was;
\* and every entity in the file carries an id the Parser extracted from a
\* page.
C19_EmptyParseDegrades ==
    /\ (/\ pc = "done"
        /\ outcome.kind = "returned"
        /\ limit > 0
        /\ \A i \in 1..Len(raw_tenders) : raw_tenders[i].tender_id \notin TenderIds)
          => /\ metadata.tenders_parsed = 0
             /\ metadata.tenders_saved = 0
             /\ store \in InitialStores
    /\ \A i \in 1..Len(store.items) : store.items[i].tender_id \in TenderIds

\* --------------------------------------------------- claims on ingested_at
\* C20: a save_tenders call that returns and writes the file writes every
\* entity it loaded back as it was stored, ingested_at included, and every
\* other entity it writes is an element of its input as it was given, with
\* the ingested_at its construction set.
C20_IngestedAtKept ==
    [][(/\ ps_last'.completed
        /\ persisters'[OPersister].calls > 0
        /\ store' # store) =>
          /\ store.loadable <= Len(store'.items)
          /\ \A i \in 1..store.loadable : store'.items[i] = store.items[i]
          /\ \A i \in (store.loadable + 1)..Len(store'.items) :
                \E j \in 1..Len(ps_last'.tenders) :
                    store'.items[i] = ps_last'.tenders[j]]_vars

\* An entity stored by an earlier run was loaded and written back with its
\* earlier ingested_at, followed by a new entity.
C20_Witness ==
    /\ ps_last.completed
    /\ ps_last.ret = 1
    /\ Len(store.items) = 2
    /\ store.items[1] = MkTender("t1", PriorTime, PriorTime)
    /\ store.items[1].ingested_at < now
    /\ store.items[2] = ps_last.tenders[1]

\* ------------------------------------------------- claims on concurrent saves
\* The place of a file operation in sv_log, 0 when it has not happened.
LogIndex(p, op) ==
    IF \E i \in 1..Len(sv_log) : sv_log[i] = <<p, op>>
    THEN CHOOSE i \in 1..Len(sv_log) : sv_log[i] = <<p, op>>
    ELSE 0

\* Both calls wrote the file and have returned.
BothSaved == \A p \in PersisterIds : sv[p].pc = "done" /\ LogIndex(p, "dump") > 0

\* Both calls read the file before either opened it for writing.
BothLoadedFirst ==
    \A p, q \in PersisterIds : LogIndex(p, "load") < LogIndex(q, "open")

\* One call wrote the file before the other read it.
OneAfterTheOther ==
    \E p, q \in PersisterIds : LogIndex(p, "dump") < LogIndex(q, "load")

\* The entities a later reader of the file gets.
StoredIds == Ids(SubSeq(store.items, 1, store.loadable))

\* Ids of entities that the call of p counted in its return value and that
\* the file does not hold.
LostIds(p) == Ids(sv[p].unique_tenders) \ StoredIds

\* C21: when both calls have written and returned, (a) calls made one after
\* the other lose no entity either of them reported as saved, and (b) when
\* both read the file before either opened it for writing, every entity
\* only the first writer brought is missing from the file.
C21_LostUpdate ==
    BothSaved =>
        /\ OneAfterTheOther => \A p \in PersisterIds : LostIds(p) = {}
        /\ BothLoadedFirst =>
             \A p, q \in PersisterIds :
                LogIndex(p, "dump") < LogIndex(q, "dump") =>
                    Ids(sv[p].unique_tenders) \ Ids(sv[q].unique_tenders) \subseteq LostIds(p)

\* Both calls read the file before either wrote; the first writer returned
\* 1 for an entity that the complete file of the second writer lacks.
C21_Witness ==
    /\ BothSaved
    /\ BothLoadedFirst
    /\ store.loadable = Len(store.items)
    /\ \E p \in PersisterIds : sv[p].ret = 1 /\ LostIds(p) # {}

\* ------------------------------------------------- claims on the path of run
\* The position of run as a number: the stages in the order of the try
\* block, then the except block, then finally.
StageRank(at) ==
    CASE at = "fetch"        -> 0
      [] at = "fetching"     -> 1
      [] at = "parse"        -> 2
      [] at = "clean"        -> 3
      [] at = "save_tenders" -> 4
      [] at = "save_meta"    -> 5
      [] at = "log_done"     -> 6
      [] at = "handler"      -> 7
      [] at = "finally"      -> 8
      [] OTHER               -> 9

\* The stage in which the exception that left the try block was raised.
FailedIn(stages) == stage_exc # NoExc /\ stage_exc.src \in stages

\* The order of the stages, each entered at most once.
StagesInOrder == [][pc' # pc => StageRank(pc') > StageRank(pc)]_vars

\* After a stage has failed only the except block and finally run.
NothingAfterFailure == [](stage_exc # NoExc => pc \in {"handler", "finally", "done"})

\* A failure of fetch, parse or clean leaves the file alone; pages_visited
\* is 1 only when fetch_page returned.
EarlyFailureEffects ==
    /\ [][store' # store => pc = "save_tenders"]_vars
    /\ [](/\ (FailedIn({"fetch_page", "parse", "clean"}) =>
                persisters[OPersister].calls = 0)
          /\ metadata.pages_visited \in {0, 1}
          /\ (FailedIn({"fetch_page"}) => metadata.pages_visited = 0)
          /\ (metadata.pages_visited = 1 => html # "none"))

\* C22: the stages of run are entered in the order fetch, parse, clean,
\* save_tenders, save summary, each at most once; the save of the summary
\* is not entered a second time once it has been entered, whether it failed
\* or returned; after a failed stage only the except block and finally run;
\* a failure of fetch, parse or clean leaves the file unchanged; and
\* pages_visited is 1 only if fetch_page returned.
C22_LinearPath ==
    /\ StagesInOrder
    /\ [][pc = "handler" /\ pc' # pc =>
            ~FailedIn({"save_run_metadata", "log"})]_vars
    /\ NothingAfterFailure
    /\ EarlyFailureEffects

\* main of scrape.py: the exit code it returns for what run handed back.
ExitCode(out) ==
    CASE out.kind = "returned"                                   -> 0
      [] out.kind = "raised" /\ out.exc.kind = "KeyboardInterrupt" -> 130
      [] out.kind = "raised"                                     -> 1
      [] OTHER                                                   -> 0 - 1

\* C23: when run is left by a KeyboardInterrupt raised in a stage (main then
\* returns 130), a row for the run's id is in the runs_metadata table at
\* the moment run hands control back.
C23_InterruptPersisted ==
    (/\ pc = "done"
     /\ stage_exc.kind = "KeyboardInterrupt"
     /\ ExitCode(outcome) = 130) => SummaryRows # {}

\* ------------------------------------- claims on the Persister's deduplicator
\* C24: a save_tenders call that returns has kept exactly the entities a
\* deduplicator seeded with nothing but the ids loaded by this call keeps:
\* the count it returns is the number of elements of its input whose id is
\* neither in the file as loaded now nor earlier in the input.
C24_FreshDeduplicator ==
    [][(/\ ps_last'.completed
        /\ persisters'[OPersister].calls > 0) =>
          ps_last'.ret =
            Len(Deduplicate(Ids(LoadExisting(store, now)), ps_last'.tenders).unique)]_vars

\* C28: get_duplicate_count and is_duplicate leave the seen-set as it was
\* before the call, so that is_duplicate answers the same for every entity
\* before and after, and a deduplicate call on the sequence that follows
\* returns what it would have returned without the call.
C28_CountingLeavesSeenSet ==
    dd_last.op \in {"get_duplicate_count", "is_duplicate"} =>
        /\ dd_seen = dd_last.seen_before
        /\ \A t \in Tenders :
              IsDuplicate(dd_seen, t) = IsDuplicate(dd_last.seen_before, t)
        /\ Deduplicate(dd_seen, dd_last.arg).unique =
              Deduplicate(dd_last.seen_before, dd_last.arg).unique

DocumentedKeys ==
    {[field |-> "tender_id", primary |-> "id", alternate |-> "tenderId", as_str |-> TRUE],
     [field |-> "title", primary |-> "title", alternate |-> "tenderTitle", as_str |-> FALSE],
     [field |-> "organization", primary |-> "organization",
      alternate |-> "organizationName", as_str |-> FALSE],
     [field |-> "tender_type_raw", primary |-> "type", alternate |-> "evaluationType",
      as_str |-> FALSE],
     [field |-> "publish_date_raw", primary |-> "publishDate",
      alternate |-> "bidSubmissionStartDate", as_str |-> FALSE],
     [field |-> "closing_date_raw", primary |-> "closingDate",
      alternate |-> "bidSubmissionEndDate", as_str |-> FALSE],
     [field |-> "description", primary |-> "description",
      alternate |-> "tenderDescription", as_str |-> FALSE]}

\* The list of items a response carries, empty when it carries none.
ResponseItems(json_data) ==
    IF json_data.shape = "dict with data" THEN json_data.data.items ELSE json_data.items

\* The field of a RawRecord as a JSON value.
FieldValue(record, f) ==
    IF f.as_str THEN JStr(record[f.field]) ELSE record[f.field]

\* The value under a key as the field is to receive it.
KeyValue(map, key, f) == IF f.as_str THEN JStr(PyStr(map[key])) ELSE map[key]

\* C26: for every item of a response whose items are all dicts and every
\* target field, the RawRecord holds the value under the primary key when
\* the item has it, and the value under the alternate key when the item has
\* that one and not the primary.
C26_PrimaryKeyFirst ==
    LET items == ResponseItems(pa_last.arg)
    IN  (/\ pa_last.op = "parse_tender_from_json"
         /\ \A i \in 1..Len(items) : items[i].is_dict) =>
            /\ Len(pa_last.ret) = Len(items)
            /\ \A i \in 1..Len(items) : \A f \in DocumentedKeys :
                  LET map == items[i].map
                  IN  /\ f.primary \in DOMAIN map =>
                            FieldValue(pa_last.ret[i], f) = KeyValue(map, f.primary, f)
                      /\ (f.primary \notin DOMAIN map /\ f.alternate \in DOMAIN map) =>
                            FieldValue(pa_last.ret[i], f) = KeyValue(map, f.alternate, f)

\* ------------------------------------------------ claims on the markup parser
\* The records of the result that the table method built: their raw_html
\* is a row.
FromRow(record) == record.raw_html.tag = "tr"

\* Row r of the table the parser picked may yield a record with this id: it
\* is not a skipped first row, has at least 3 cells and holds a link whose
\* href gives the numeric id.
RowMayYield(doc, r, tender_id) ==
    LET all_rows == doc.tables[FindTable(doc)].rows
    IN  /\ r \in 1..Len(all_rows)
        /\ (r = 1 => Len(all_rows) = 1)
        /\ Len(all_rows[r]) >= 3
        /\ \E c \in 1..Len(all_rows[r]) :
              /\ TenderIdMatch(all_rows[r][c]) # NoHref
              /\ TenderIdMatch(all_rows[r][c]) = tender_id

\* C27: the result of parse_tender_list_from_html is either all from the
\* table method or all from the hyperlink scan.  With a table of which a
\* row yields a record it is the table-method records in row order, each
\* from a row of the picked table that is not a skipped first row, has at
\* least 3 cells and holds a numeric tender link; otherwise it is exactly
\* the records of the hyperlink scan over the document.
C27_MethodsExclusive ==
    LET doc == pa_last.arg
        ret == pa_last.ret
    IN  pa_last.op = "parse_tender_list_from_html" =>
          \/ /\ ret # <<>>
             /\ FindTable(doc) # 0
             /\ \A i \in 1..Len(ret) :
                   /\ FromRow(ret[i])
                   /\ ret[i].raw_html.t = FindTable(doc)
                   /\ RowMayYield(doc, ret[i].raw_html.r, ret[i].tender_id)
             /\ \A i, j \in 1..Len(ret) : i < j => ret[i].raw_html.r < ret[j].raw_html.r
             /\ ret = RowLoop(doc, FindTable(doc),
                              IF Len(doc.tables[FindTable(doc)].rows) > 1 THEN 2 ELSE 1)
          \/ /\ \/ FindTable(doc) = 0
                \/ RowLoop(doc, FindTable(doc),
                           IF Len(doc.tables[FindTable(doc)].rows) > 1 THEN 2 ELSE 1) = <<>>
             /\ \A i \in 1..Len(ret) : ~FromRow(ret[i])
             /\ ret = ParseFromLinks(doc)

\* A table of three rows whose second and third row yield a record, in a
\* document that also has a tender link outside the table and one in the
\* skipped first row: the result is the two row records.
C27_Witness ==
    /\ pa_last.op = "parse_tender_list_from_html"
    /\ Len(pa_last.arg.tables) = 1
    /\ Len(pa_last.arg.tables[1].rows) = 3
    /\ TenderIdMatch(pa_last.arg.tables[1].rows[1][1]) # NoHref
    /\ Len(pa_last.arg.links) = 1
    /\ TenderIdMatch(pa_last.arg.links[1]) # NoHref
    /\ Len(pa_last.ret) = 2
    /\ pa_last.ret[1].raw_html = Element("tr", 1, 2, 0)
    /\ pa_last.ret[2].raw_html = Element("tr", 1, 3, 0)
====
